---- MODULE Spec2Model ----
(***************************************************************************)
(* Model of the crawl-and-extract engine of nampq11/scraper:               *)
(*   src/src/core/crawler.py  (Crawler: URL admission, crawl, map)         *)
(*   src/src/core/scraper.py  (Scraper: fetch with retry, scrape)          *)
(*                                                                         *)
(* A URL string is a sequence of tokens.  A punctuation token (":" "/"     *)
(* "?" "#" ";" "." "*") is the character itself; any other token stands    *)
(* for a run of letters that holds no punctuation.  String operations of   *)
(* the code (find, split, startswith, rstrip, "in") are sequence           *)
(* operations on the tokens.                                               *)
(***************************************************************************)
EXTENDS Integers, Sequences, FiniteSets, TLC

(***************************************************************************)
(* Bounds of the model.                                                    *)
(***************************************************************************)
\* largest max_depth option tried
MaxDepthOpt == 2
\* largest max_pages option tried
MaxPagesOpt == 2
\* most links one scraped page reports
MaxLinks == 2
\* largest max_retries page option tried
MaxRetriesOpt == 3

\* the longest URL list given to scrape_batch, and the largest concurrency
MaxBatch == 3

MaxConcurrency == 2

\* the most slashes at the end of a path given to _normalize_url, and the
\* largest visited set given to _should_crawl
MaxSlashes == 2

MaxSeen == 1

\* the longest markdown line given to _clean_markdown, in tokens
MaxLine == 4

(***************************************************************************)
(* Strings as token sequences.                                             *)
(***************************************************************************)
\* index of the first occurrence of token t in s at or after position from
\* (1-based), 0 when there is none: str.find
Find(s, t, from) ==
    LET hits == {i \in from..Len(s) : s[i] = t}
    IN IF hits = {} THEN 0 ELSE CHOOSE i \in hits : \A j \in hits : i <= j

\* index of the last occurrence of t in s, 0 when there is none: str.rfind
RFind(s, t) ==
    LET hits == {i \in 1..Len(s) : s[i] = t}
    IN IF hits = {} THEN 0 ELSE CHOOSE i \in hits : \A j \in hits : i >= j

\* s[from..] (1-based, empty when from is past the end)
Drop(s, from) == SubSeq(s, from, Len(s))

\* s[..upto]
Take(s, upto) == SubSeq(s, 1, upto)

\* str.startswith
StartsWith(s, p) == Len(p) <= Len(s) /\ Take(s, Len(p)) = p

\* "p in s" for strings: p occurs as a contiguous run of s
Contains(s, p) ==
    \E i \in 1..(Len(s) + 1) : i + Len(p) - 1 <= Len(s) /\ SubSeq(s, i, i + Len(p) - 1) = p

\* str.rstrip("/"): every trailing "/" is removed
RStripSlash(s) ==
    LET keep == {i \in 0..Len(s) : \A j \in (i + 1)..Len(s) : s[j] = "/"}
    IN Take(s, CHOOSE i \in keep : \A j \in keep : i <= j)

\* str.lower on one token: the model's only upper-case tokens
LowerTok(t) ==
    CASE t = "HTTP" -> "http"
      [] t = "Assets" -> "assets"
      [] t = "Q" -> "q"
      [] OTHER -> t

\* str.lower
Lower(s) == [i \in 1..Len(s) |-> LowerTok(s[i])]

Punct == {":", "/", "?", "#", ";", "*"}

(***************************************************************************)
(* urllib.parse.urlparse, as the crawler uses it: scheme, netloc, path,    *)
(* params, query, fragment.                                                *)
(***************************************************************************)
\* schemes of urllib's uses_params list that the model's URLs can carry
UsesParams == {<<>>, <<"http">>, <<"https">>}

\* urlsplit's scheme rule: the text before the first ":" when it is
\* non-empty and made of scheme characters (letters and ".")
SchemeEnd(u) ==
    LET i == Find(u, ":", 1)
    IN IF i > 1 /\ u[1] # "." /\ \A j \in 1..(i - 1) : u[j] \notin Punct THEN i ELSE 0

\* _splitparams: the parameters of the last path segment
SplitParams(p) ==
    LET i == IF Find(p, "/", 1) > 0 THEN Find(p, ";", RFind(p, "/")) ELSE Find(p, ";", 1)
    IN IF i = 0 THEN [path |-> p, params |-> <<>>]
       ELSE [path |-> Take(p, i - 1), params |-> Drop(p, i + 1)]

\* urlsplit, first step: the scheme, lower-cased, and what follows its ":"
SplitScheme(u, se) ==
    IF se > 0 THEN [scheme |-> Lower(Take(u, se - 1)), rest |-> Drop(u, se + 1)]
    ELSE [scheme |-> <<>>, rest |-> u]

\* the end of the netloc of a text that starts with "//": the first of "/?#"
NetlocEnd(r) ==
    LET delims == {i \in 3..Len(r) : r[i] \in {"/", "?", "#"}}
    IN IF delims = {} THEN Len(r) + 1 ELSE CHOOSE i \in delims : \A j \in delims : i <= j

\* urlsplit, second step: the netloc after "//"
SplitNetloc(r, nend) ==
    IF StartsWith(r, <<"/", "/">>)
    THEN [netloc |-> SubSeq(r, 3, nend - 1), rest |-> Drop(r, nend)]
    ELSE [netloc |-> <<>>, rest |-> r]

\* str.split(t, 1): the text before the first t and the text after it
SplitAt(r, i) ==
    IF i > 0 THEN [head |-> Take(r, i - 1), tail |-> Drop(r, i + 1)]
    ELSE [head |-> r, tail |-> <<>>]

\* urlparse's parameter rule for a scheme and the text left as path
PathParams(scheme, p) ==
    IF scheme \in UsesParams /\ Find(p, ";", 1) > 0 THEN SplitParams(p)
    ELSE [path |-> p, params |-> <<>>]

ParsePath(s, n, f, q) ==
    [scheme |-> s.scheme, netloc |-> n.netloc, path |-> PathParams(s.scheme, q.head).path,
     params |-> PathParams(s.scheme, q.head).params, query |-> q.tail, fragment |-> f.tail]

ParseQuery(s, n, f) == ParsePath(s, n, f, SplitAt(f.head, Find(f.head, "?", 1)))

ParseFragment(s, n) == ParseQuery(s, n, SplitAt(n.rest, Find(n.rest, "#", 1)))

ParseNetloc(s) == ParseFragment(s, SplitNetloc(s.rest, NetlocEnd(s.rest)))

urlparse(u) == ParseNetloc(SplitScheme(u, SchemeEnd(u)))

(***************************************************************************)
(* Crawler: normalisation and admission.                                   *)
(***************************************************************************)
\* the f-string of _normalize_url
Unparse(parsed) ==
    parsed.scheme \o <<":", "/", "/">> \o parsed.netloc \o RStripSlash(parsed.path)
    \o (IF parsed.query # <<>> THEN <<"?">> \o parsed.query ELSE <<>>)

\* Crawler._normalize_url: scheme://netloc + path.rstrip("/") + ("?" + query)
_normalize_url(u) == Unparse(urlparse(u))

\* a mutation: only the last label is compared
LastLabelOnly(netloc) == IF netloc = <<>> THEN netloc ELSE <<netloc[Len(netloc)]>>

\* netloc.split(".")[-2:] joined by ".": the text after the second-last "."
LastTwoLabels(netloc) ==
    LET dots == {i \in 1..Len(netloc) : netloc[i] = "."}
        cut  == {i \in dots : Cardinality({j \in dots : j >= i}) = 2}
    IN IF cut = {} THEN netloc ELSE Drop(netloc, (CHOOSE i \in cut : TRUE) + 1)

\* Crawler._is_same_domain
_is_same_domain(url1, url2, include_subdomains) ==
    IF include_subdomains
    THEN LastTwoLabels(urlparse(url1).netloc) = LastTwoLabels(urlparse(url2).netloc)
    ELSE urlparse(url1).netloc = urlparse(url2).netloc

(***************************************************************************)
(* Option values.  A Python value is [kind, v]: None, an int, a float      *)
(* (v counts halves, so [kind |-> "float", v |-> 3] is 1.5), a str, or a   *)
(* bool (v is 0 or 1; bool is a subclass of int).                          *)
(***************************************************************************)
PyNone == [kind |-> "none", v |-> 0]

PyInt(n) == [kind |-> "int", v |-> n]

PyFloat(h) == [kind |-> "float", v |-> h]

PyStr == [kind |-> "str", v |-> 0]

\* Python truthiness of an option value
Truthy(x) ==
    CASE x.kind = "none" -> FALSE
      [] x.kind = "str" -> TRUE
      [] OTHER -> x.v # 0

\* isinstance(x, int)
IsInt(x) == x.kind \in {"int", "bool"}

\* isinstance(x, (int, float))
IsNumber(x) == x.kind \in {"int", "bool", "float"}

\* the value of a number in halves, so that ints and floats compare
Halves(x) == IF x.kind = "float" THEN x.v ELSE 2 * x.v

\* a mutation: /assets/ is not on the list
BlocklistShort ==
    {<<"/", "cdn-cgi", "/">>, <<"/", "wp-admin", "/">>, <<"/", "wp-includes", "/">>,
     <<"/", "static", "/">>}

\* the infrastructure paths _should_crawl rejects
Blocklist ==
    {<<"/", "cdn-cgi", "/">>, <<"/", "wp-admin", "/">>, <<"/", "wp-includes", "/">>,
     <<"/", "assets", "/">>, <<"/", "static", "/">>}

\* a mutation: every pattern is matched by equality
PatternMatchesExact(pattern, path) == path = pattern

\* one exclude/include pattern against a path: prefix match when the pattern
\* ends in "*", equality otherwise
PatternMatches(pattern, path) ==
    IF Len(pattern) > 0 /\ pattern[Len(pattern)] = "*"
    THEN StartsWith(path, Take(pattern, Len(pattern) - 1))
    ELSE path = pattern

\* the max_pages rule with > for >=
PageCapReachedLate(options, seen) ==
    Truthy(options.max_pages) /\ 2 * Cardinality(seen) > Halves(options.max_pages)

\* the max_pages rule of _should_crawl
PageCapReached(options, seen) ==
    Truthy(options.max_pages) /\ 2 * Cardinality(seen) >= Halves(options.max_pages)

\* the path rules of _should_crawl: blocklist, exclude_paths, include_only_paths
\* (crawler.py 75-108)
PathAllowed(path, options) ==
    /\ \A p \in Blocklist : ~Contains(Lower(path), p)
    /\ \A i \in 1..Len(options.exclude_paths) : ~PatternMatches(options.exclude_paths[i], path)
    /\ \/ options.include_only_paths = <<>>
       \/ \E i \in 1..Len(options.include_only_paths) :
             PatternMatches(options.include_only_paths[i], path)

\* the visited rule of _should_crawl left out
VisitedRuleSkipped(normalized, seen) == FALSE

\* the visited rule of _should_crawl (crawler.py 69)
AlreadyVisited(normalized, seen) == normalized \in seen

\* Crawler._should_crawl, with self.visited passed as seen
_should_crawl(u, base_url, options, seen) ==
    /\ u # <<>>
    /\ StartsWith(u, <<"http", ":", "/", "/">>) \/ StartsWith(u, <<"https", ":", "/", "/">>)
    /\ options.allow_backwards \/ _is_same_domain(u, base_url, options.include_subdomains)
    /\ ~AlreadyVisited(_normalize_url(u), seen)
    /\ ~PageCapReached(options, seen)
    /\ PathAllowed(urlparse(_normalize_url(u)).path, options)

\* urljoin(base, link) for a link that carries its own scheme: Scraper.scrape
\* reports absolute links only, and urljoin leaves an absolute link alone
urljoin(base, link) == IF SchemeEnd(link) > 0 THEN link ELSE base

(***************************************************************************)
(* The inputs: URLs, link pool, options.                                   *)
(***************************************************************************)
Http(host, path) == <<"http", ":", "/", "/">> \o host \o path

HostX == <<"x", ".", "com">>

\* the start URL of every call: http://x.com/
StartUrl == Http(HostX, <<"/">>)

\* the links a scraped page can report (absolute, as Scraper.scrape builds them)
LinkPool ==
    {StartUrl,
     Http(HostX, <<"/", "p">>),
     Http(HostX, <<"/", "p", "#", "f">>),
     Http(HostX, <<"/", "q", "/">>),
     Http(<<"b", ".", "x", ".", "com">>, <<"/", "p">>)}

LinkSets == {L \in SUBSET LinkPool : Cardinality(L) <= MaxLinks}

DepthValues == {PyNone, PyStr, PyFloat(1)} \cup {PyInt(n) : n \in (-1)..MaxDepthOpt}

PagesValues == {PyNone, PyStr, PyFloat(2)} \cup {PyInt(n) : n \in (-1)..MaxPagesOpt}

\* the other options, varied one at a time around the defaults
PlainOptions ==
    [allow_backwards |-> FALSE, include_subdomains |-> FALSE, exclude_paths |-> <<>>,
     include_only_paths |-> <<>>, search |-> <<>>, page_options_is_dict |-> TRUE]

Flavours ==
    {PlainOptions,
     [PlainOptions EXCEPT !.allow_backwards = TRUE],
     [PlainOptions EXCEPT !.include_subdomains = TRUE],
     [PlainOptions EXCEPT !.exclude_paths = <<<<"/", "q">>>>],
     [PlainOptions EXCEPT !.include_only_paths = <<<<>>, <<"/", "p", "*">>>>],
     [PlainOptions EXCEPT !.page_options_is_dict = FALSE]}

WithLimits(f, d, n) ==
    [max_depth |-> d, max_pages |-> n, allow_backwards |-> f.allow_backwards,
     include_subdomains |-> f.include_subdomains, exclude_paths |-> f.exclude_paths,
     include_only_paths |-> f.include_only_paths, search |-> f.search,
     page_options_is_dict |-> f.page_options_is_dict]

CrawlOptions == {WithLimits(f, d, n) : f \in Flavours, d \in DepthValues, n \in PagesValues}

\* map reads max_pages and search, and validates nothing; the search term Q
\* occurs, in lower case, in the path of one URL of the pool and nowhere else
MapOptions ==
    {WithLimits(f, PyNone, n) : f \in Flavours \cup {[PlainOptions EXCEPT !.search = <<"Q">>]},
                                n \in {PyNone} \cup {PyInt(k) : k \in (-1)..MaxPagesOpt}}

(***************************************************************************)
(* What Scraper.scrape hands back, as far as Crawler reads it: the         *)
(* top-level "error", "content", the "error" key of "metadata", "links".   *)
(*   ok         content generated, no error anywhere                       *)
(*   meta_error the inner handler ran (scraper.py 334-338): "error" stays  *)
(*              None, metadata["error"] is set, content is {}; links found *)
(*              before the failure stay in the result                      *)
(*   top_error  the outer handler ran (scraper.py 347-356): only           *)
(*              page_options.get can fail there                            *)
(***************************************************************************)
ScrapeResult(kind, links) ==
    [error |-> kind = "top_error", meta_error |-> kind = "meta_error",
     content |-> kind = "ok", links |-> links]

ScrapeResults(options) ==
    IF options.page_options_is_dict
    THEN {ScrapeResult(k, L) : k \in {"ok", "meta_error"}, L \in LinkSets}
    ELSE {ScrapeResult("top_error", {})}

(***************************************************************************)
(* State.  visited and queue are the fields of the one Crawler instance;   *)
(* everything indexed by a session is local to one crawl or map call.      *)
(***************************************************************************)
Sessions == {"s1", "s2"}

VARIABLES
    visited,        \* Crawler.visited
    queue,          \* Crawler.queue
    pc,             \* where each call stands
    call,           \* the arguments of each call: op, url, options
    current_depth,  \* crawl's current_depth
    current_urls,   \* the URLs of the wave's snapshot not yet taken by the for loop
    current_url,    \* the for loop's current_url while its page is scraped
    normalized,     \* crawl's normalized, the URL handed to scrape, while it is scraped
    results,        \* crawl's results / map's returned list
    fetched,        \* how often each call handed each URL to Scraper.scrape
    waves,          \* how often each call's while body has run
    chains          \* the chains of admitted links each call has followed: <<URL, length>>

crawlVars ==
    <<visited, queue, pc, call, current_depth, current_urls, current_url, normalized,
      results, fetched, waves, chains>>

VARIABLES
    spc,           \* where the scrape call stands
    page_options,  \* scrape's page_options
    formats,       \* scrape's formats
    attempt,       \* _fetch_url's loop variable
    log,           \* the outcome of every session.get of this call, in order
    slept,         \* the argument of every asyncio.sleep of this call, in order
    content,       \* the attempt whose response text the fetch returned (0: none)
    failed,        \* the stages of this call in which an exception was raised
    result         \* scrape's result

scrapeVars == <<spc, page_options, formats, attempt, log, slept, content, failed, result>>

VARIABLES
    bpc,           \* where the scrape_batch call stands
    burls,         \* its urls argument
    bcap,          \* its concurrency argument
    bdict,         \* whether its page_options is a dict (or None)
    sem,           \* the value of the asyncio.Semaphore
    tpc,           \* where each task of the gather stands
    batch_results, \* what gather returns, by position
    bresults       \* the results dict

batchVars == <<bpc, burls, bcap, bdict, sem, tpc, batch_results, bresults>>

\* what the crawler's steps leave alone, what the scraper's do, what the
\* batch's do
VARIABLES
    fop,    \* which method of Crawler or Scraper was called on its own
    fin,    \* its arguments
    fout    \* what it returned

callVars == <<fop, fin, fout>>

\* the API: the two tables of the database, and the requests and background
\* tasks of the server
VARIABLES
    jobs,             \* the rows of the jobs table, by id
    scraped_content,  \* the rows of the scraped_content table, by job_id
    background,       \* the background tasks added, by job id, and what each one's operation did
    handler,          \* the route handler that is running, and where it stands
    response,         \* what the handler returned, until it is sent
    now               \* datetime.now(), in days

jobVars == <<jobs, scraped_content, background, handler, response, now>>

\* a fetch with the browser
VARIABLES
    wpc,     \* where the _fetch_url_browser call stands
    driver,  \* the Playwright driver of the call: "none", "alive" or "stopped"
    wopts,   \* the page_options of the call
    wi,      \* the place in the actions list of the action to run next
    trace    \* the page operations applied so far

browserVars == <<wpc, driver, wopts, wi, trace>>

notCrawl == <<scrapeVars, batchVars, callVars, jobVars, browserVars>>

notScrape == <<crawlVars, batchVars, callVars, jobVars, browserVars>>

notBatch == <<crawlVars, scrapeVars, callVars, jobVars, browserVars>>

notCall == <<crawlVars, scrapeVars, batchVars, jobVars, browserVars>>

notJobs == <<crawlVars, scrapeVars, batchVars, callVars, browserVars>>

notBrowser == <<crawlVars, scrapeVars, batchVars, callVars, jobVars>>

NoCall == [op |-> "none", url |-> <<>>, options |-> WithLimits(PlainOptions, PyNone, PyNone)]

NoResults ==
    [pages |-> <<>>, total_pages |-> 0, depth_reached |-> 0, has_depth |-> FALSE, urls |-> <<>>,
     found |-> {}]

InitCrawl ==
    /\ visited = {}
    /\ queue = {}
    /\ pc = [c \in Sessions |-> "idle"]
    /\ call = [c \in Sessions |-> NoCall]
    /\ current_depth = [c \in Sessions |-> 0]
    /\ current_urls = [c \in Sessions |-> {}]
    /\ current_url = [c \in Sessions |-> <<>>]
    /\ normalized = [c \in Sessions |-> <<>>]
    /\ results = [c \in Sessions |-> NoResults]
    /\ fetched = [c \in Sessions |-> <<>>]
    /\ waves = [c \in Sessions |-> 0]
    /\ chains = [c \in Sessions |-> {}]

\* the validation without its max_depth < 0 and max_pages < 1 tests
OptionsValidTypesOnly(options) ==
    /\ options.max_depth.kind = "none" \/ IsNumber(options.max_depth)
    /\ options.max_pages.kind = "none" \/ IsInt(options.max_pages)

\* the sets crawl resets at line 188-189, given what they held
ClearedKept(s) == s

\* set.clear()
Cleared(s) == {}

\* crawl's validation of max_depth and max_pages (crawler.py 177-186)
OptionsValid(options) ==
    /\ \/ options.max_depth.kind = "none"
       \/ IsNumber(options.max_depth) /\ Halves(options.max_depth) >= 0
    /\ \/ options.max_pages.kind = "none"
       \/ IsInt(options.max_pages) /\ options.max_pages.v >= 1

\* a mutation: the while condition without its max_depth test
WaveAllowedAnyDepth(q, depth, options) == q # {}

\* the while condition of crawl: the queue is non-empty and current_depth < max_depth
\* (max_depth None was replaced by infinity)
WaveAllowed(q, depth, options) ==
    /\ q # {}
    /\ options.max_depth.kind = "none" \/ 2 * depth < Halves(options.max_depth)

\* the entry without the result's metadata
PageEntryBare(res) == [content |-> res.content, meta_error |-> FALSE, error |-> FALSE]

\* the entry crawl stores for a scraped page (crawler.py 239-243)
PageEntry(res) == [content |-> res.content, meta_error |-> res.meta_error, error |-> FALSE]

\* every link queued, without the admission check
AllLinks(res, cu, base, options, seen) == {_normalize_url(urljoin(cu, l)) : l \in res.links}

\* the links of a result that crawl adds to the queue (crawler.py 245-253)
AdmittedLinks(res, cu, base, options, seen) ==
    {_normalize_url(urljoin(cu, l)) : l \in
        {l \in res.links : _should_crawl(_normalize_url(urljoin(cu, l)), base, options, seen)}}

\* f with key k set to v
Put(f, k, v) == [x \in DOMAIN f \cup {k} |-> IF x = k THEN v ELSE f[x]]

\* f with one more occurrence of k
Counted(f, k) == Put(f, k, IF k \in DOMAIN f THEN f[k] + 1 ELSE 1)

\* the calls of a sequential use do not overlap
Alone(c) == \A d \in Sessions \ {c} : pc[d] = "idle"

\* the chain lengths by which a call has come to a URL
Lengths(ch, u) == {pair[2] : pair \in {x \in ch : x[1] = u}}

\* the chains that end with a link of the page at cu to one of the URLs
\* queued from it (crawler.py 245-253)
Followed(ch, cu, links) == {<<l, n + 1>> : l \in links, n \in Lengths(ch, cu)}

\* a mutation: the wave counter stands still
DeeperNot(d) == d

\* current_depth += 1 (crawler.py 263)
Deeper(d) == d + 1

\* crawl, from its entry to the while loop (crawler.py 176-202)
CrawlCall(c, u, options) ==
    /\ UNCHANGED notCrawl
    /\ pc[c] = "idle"
    /\ call' = [call EXCEPT ![c] = [op |-> "crawl", url |-> u, options |-> options]]
    /\ IF OptionsValid(options)
       THEN /\ visited' = Cleared(visited)
            /\ queue' = Cleared(queue) \cup {u}
            /\ results' = [results EXCEPT ![c] = NoResults]
            /\ current_depth' = [current_depth EXCEPT ![c] = 0]
            /\ pc' = [pc EXCEPT ![c] = "while"]
       ELSE /\ pc' = [pc EXCEPT ![c] = "raised"]
            /\ UNCHANGED <<visited, queue, results, current_depth>>
    /\ waves' = [waves EXCEPT ![c] = 0]
    /\ chains' = [chains EXCEPT ![c] = {<<u, 0>>}]
    /\ UNCHANGED <<current_urls, current_url, normalized, fetched>>

\* the while test; a new wave snapshots and clears the queue (crawler.py 205-207),
\* the end of the loop fills in depth_reached and returns (crawler.py 265-268)
CrawlWhile(c) ==
    /\ UNCHANGED notCrawl
    /\ pc[c] = "while"
    /\ IF WaveAllowed(queue, current_depth[c], call[c].options)
       THEN /\ current_urls' = [current_urls EXCEPT ![c] = queue]
            /\ queue' = {}
            /\ pc' = [pc EXCEPT ![c] = "for"]
            /\ waves' = [waves EXCEPT ![c] = @ + 1]
            /\ UNCHANGED results
       ELSE /\ results' = [results EXCEPT ![c].depth_reached = current_depth[c] - 1,
                                          ![c].has_depth = TRUE]
            /\ pc' = [pc EXCEPT ![c] = "done"]
            /\ UNCHANGED <<current_urls, queue, waves>>
    /\ UNCHANGED <<visited, call, current_depth, current_url, normalized, fetched, chains>>

\* one turn of the for loop up to the await: take a URL of the snapshot (a set:
\* any order), skip it when _should_crawl fails, else mark it visited and call
\* scrape (crawler.py 209-223); after the last URL the wave ends (crawler.py 263)
CrawlFor(c) ==
    /\ UNCHANGED notCrawl
    /\ pc[c] = "for"
    /\ IF current_urls[c] = {}
       THEN /\ current_depth' = [current_depth EXCEPT ![c] = Deeper(@)]
            /\ pc' = [pc EXCEPT ![c] = "while"]
            /\ UNCHANGED <<visited, current_urls, current_url, normalized, fetched>>
       ELSE \E cu \in current_urls[c] :
            /\ current_urls' = [current_urls EXCEPT ![c] = @ \ {cu}]
            /\ IF _should_crawl(cu, call[c].url, call[c].options, visited)
               THEN /\ current_url' = [current_url EXCEPT ![c] = cu]
                    /\ normalized' = [normalized EXCEPT ![c] = _normalize_url(cu)]
                    /\ visited' = visited \cup {_normalize_url(cu)}
                    /\ fetched' = [fetched EXCEPT ![c] = Counted(@, _normalize_url(cu))]
                    /\ pc' = [pc EXCEPT ![c] = "scrape"]
               ELSE UNCHANGED <<current_url, normalized, visited, fetched, pc>>
            /\ UNCHANGED current_depth
    /\ UNCHANGED <<queue, call, results, waves, chains>>

\* scrape returns res: a result without top-level error is stored and its
\* admitted links are queued; total_pages counts either way (crawler.py 236-261)
CrawlScraped(c, res) ==
    /\ UNCHANGED notCrawl
    /\ pc[c] = "scrape"
    /\ res \in ScrapeResults(call[c].options)
    /\ IF ~res.error
       THEN /\ results' = [results EXCEPT
                  ![c].pages = Put(@, normalized[c], PageEntry(res)),
                  ![c].total_pages = @ + 1]
            /\ queue' = queue \cup AdmittedLinks(res, current_url[c], call[c].url,
                                                 call[c].options, visited)
            /\ chains' = [chains EXCEPT ![c] = @ \cup
                  Followed(@, current_url[c],
                           AdmittedLinks(res, current_url[c], call[c].url,
                                         call[c].options, visited))]
       ELSE /\ results' = [results EXCEPT ![c].total_pages = @ + 1]
            /\ UNCHANGED <<queue, chains>>
    /\ pc' = [pc EXCEPT ![c] = "for"]
    /\ current_url' = [current_url EXCEPT ![c] = <<>>]
    /\ normalized' = [normalized EXCEPT ![c] = <<>>]
    /\ UNCHANGED <<visited, call, current_depth, current_urls, fetched, waves>>

\* the caller has the result (or the exception); the call's frame is gone
Return(c) ==
    /\ UNCHANGED notCrawl
    /\ pc[c] \in {"done", "raised"}
    /\ pc' = [pc EXCEPT ![c] = "idle"]
    /\ call' = [call EXCEPT ![c] = NoCall]
    /\ current_depth' = [current_depth EXCEPT ![c] = 0]
    /\ current_urls' = [current_urls EXCEPT ![c] = {}]
    /\ current_url' = [current_url EXCEPT ![c] = <<>>]
    /\ normalized' = [normalized EXCEPT ![c] = <<>>]
    /\ results' = [results EXCEPT ![c] = NoResults]
    /\ fetched' = [fetched EXCEPT ![c] = <<>>]
    /\ waves' = [waves EXCEPT ![c] = 0]
    /\ chains' = [chains EXCEPT ![c] = {}]
    /\ UNCHANGED <<visited, queue>>

(***************************************************************************)
(* Crawler.map                                                             *)
(***************************************************************************)
\* code-point order of the tokens that can differ at the first difference of
\* two of the model's URLs
TokRank(t) ==
    CASE t = "#" -> 1
      [] t = "." -> 2
      [] t = "/" -> 3
      [] t = ":" -> 4
      [] t = ";" -> 5
      [] t = "?" -> 6
      [] t = "Assets" -> 7
      [] t = "HTTP" -> 8
      [] t = "b" -> 9
      [] t = "com" -> 10
      [] t = "f" -> 11
      [] t = "http" -> 12
      [] t = "https" -> 13
      [] t = "mailto" -> 14
      [] t = "me" -> 15
      [] t = "o" -> 16
      [] t = "p" -> 17
      [] t = "q" -> 18
      [] t = "x" -> 19
      [] OTHER -> 20

\* a < b as Python compares strings
StrLess(a, b) ==
    \E i \in 1..(Len(a) + 1) :
        /\ i <= Len(b)
        /\ \A j \in 1..(i - 1) : a[j] = b[j]
        /\ i = Len(a) + 1 \/ TokRank(a[i]) < TokRank(b[i])

\* sorted(list(S))
Sorted(S) ==
    CHOOSE q \in [1..Cardinality(S) -> S] :
        /\ {q[i] : i \in 1..Cardinality(S)} = S
        /\ \A i \in 1..(Cardinality(S) - 1) : StrLess(q[i], q[i + 1])

\* a mutation: the slice keeps everything
SliceLenAll(len, n) == len

\* len(list(S)[:n]) for an int n
SliceLen(len, n) ==
    IF n >= 0 THEN (IF n < len THEN n ELSE len)
    ELSE (IF len + n > 0 THEN len + n ELSE 0)

\* the sets set(list(S)[:n]) can be: a set lists its elements in any order
Slices(S, n) == {T \in SUBSET S : Cardinality(T) = SliceLen(Cardinality(S), n)}

\* map, from its entry to the await of scrape (crawler.py 127-138)
MapCall(c, u, options) ==
    /\ UNCHANGED notCrawl
    /\ pc[c] = "idle"
    /\ call' = [call EXCEPT ![c] = [op |-> "map", url |-> u, options |-> options]]
    /\ visited' = Cleared(visited)
    /\ queue' = Cleared(queue)
    /\ fetched' = [fetched EXCEPT ![c] = Counted(@, u)]
    /\ pc' = [pc EXCEPT ![c] = "map_scrape"]
    /\ UNCHANGED <<current_depth, current_urls, current_url, normalized, results, waves,
                   chains>>

\* the set urls of map after the loop over the links (crawler.py 143-148)
MapFound(res, u, options, seen) == {u} \cup AdmittedLinks(res, u, u, options, seen)

\* the URLs map collects from a result (crawler.py 143-151)
MapCollected(res, u, options, seen) ==
    LET urls == MapFound(res, u, options, seen)
    IN IF options.search # <<>>
       THEN {x \in urls : Contains(Lower(x), Lower(options.search))}
       ELSE urls

\* scrape returns res to map: a top-level error is raised, else the collected
\* URLs are filtered, cut to max_pages and sorted (crawler.py 140-156)
MapScraped(c, res) ==
    /\ UNCHANGED notCrawl
    /\ pc[c] = "map_scrape"
    /\ res \in ScrapeResults(call[c].options)
    /\ IF res.error
       THEN /\ pc' = [pc EXCEPT ![c] = "raised"]
            /\ UNCHANGED results
       ELSE \E urls \in (IF Truthy(call[c].options.max_pages)
                         THEN Slices(MapCollected(res, call[c].url, call[c].options, visited),
                                     call[c].options.max_pages.v)
                         ELSE {MapCollected(res, call[c].url, call[c].options, visited)}) :
            /\ results' = [results EXCEPT
                    ![c].urls = Sorted(urls),
                    ![c].found = MapFound(res, call[c].url, call[c].options, visited)]
            /\ pc' = [pc EXCEPT ![c] = "done"]
    /\ UNCHANGED <<visited, queue, call, current_depth, current_urls, current_url,
                   normalized, fetched, waves, chains>>

(***************************************************************************)
(* One Crawler instance used by one caller, one call after the other: the  *)
(* caller's calls are session s1's, and a call starts only when no other   *)
(* is in progress.                                                         *)
(***************************************************************************)
Caller == "s1"

Step(c) ==
    \/ CrawlWhile(c)
    \/ CrawlFor(c)
    \/ \E res \in ScrapeResults(call[c].options) : CrawlScraped(c, res)
    \/ \E res \in ScrapeResults(call[c].options) : MapScraped(c, res)
    \/ Return(c)

NextCrawl ==
    \E c \in {Caller} :
        \/ Alone(c) /\ \E o \in CrawlOptions : CrawlCall(c, StartUrl, o)
        \/ Alone(c) /\ \E o \in MapOptions : MapCall(c, StartUrl, o)
        \/ Step(c)

(***************************************************************************)
(* One Crawler instance used by two callers whose calls overlap.  A call   *)
(* gives up control only at `await scraper.scrape(...)` (crawler.py 132,   *)
(* 223) and when it returns: the others run only while it is there.        *)
(***************************************************************************)
Suspended(c) == pc[c] \in {"idle", "scrape", "map_scrape", "done", "raised"}

\* no other call is between two suspension points
HasControl(c) == \A d \in Sessions \ {c} : Suspended(d)

\* the overlapping calls: crawls of two waves, and maps, with default options
OverlapOptions == {WithLimits(PlainOptions, PyInt(2), PyNone)}

OverlapMapOptions == {WithLimits(PlainOptions, PyNone, PyNone)}

\* the pages they see link to nothing, to the start URL or to one other page
OverlapResults == {ScrapeResult("ok", L) : L \in {{}, {StartUrl}, {Http(HostX, <<"/", "p">>)}}}

NextOverlap ==
    \E c \in Sessions :
        \/ HasControl(c) /\ \E o \in OverlapOptions : CrawlCall(c, StartUrl, o)
        \/ HasControl(c) /\ \E o \in OverlapMapOptions : MapCall(c, StartUrl, o)
        \/ HasControl(c) /\ CrawlWhile(c)
        \/ HasControl(c) /\ CrawlFor(c)
        \/ HasControl(c) /\ \E res \in OverlapResults : CrawlScraped(c, res)
        \/ HasControl(c) /\ \E res \in OverlapResults : MapScraped(c, res)
        \/ HasControl(c) /\ Return(c)

(***************************************************************************)
(* Scraper.scrape and Scraper._fetch_url: one scrape call at a time.       *)
(***************************************************************************)
\* max_retries of _fetch_url's signature and of page_options.get("max_retries", 3)
DefaultMaxRetries == 3

Absent == [kind |-> "absent", v |-> 0]

PageOptionSets ==
    {[is_dict |-> TRUE, use_browser |-> b, max_retries |-> r, include_links |-> l] :
        b \in BOOLEAN, l \in BOOLEAN,
        r \in {Absent, PyNone} \cup {PyInt(n) : n \in (-1)..MaxRetriesOpt}}
    \cup {[is_dict |-> FALSE, use_browser |-> FALSE, max_retries |-> Absent,
           include_links |-> FALSE]}

FormatSets == {{"markdown"}, {"markdown", "html", "text"}, {"pdf"}}

\* the formats _generate_formats knows (scraper.py 240-253)
GeneratedFormats(fm) == fm \cap {"markdown", "html", "text"}

\* scrape's result at entry (scraper.py 261-273)
EmptyResult == [error |-> FALSE, meta_error |-> FALSE, content |-> FALSE, links |-> FALSE]

NoPageOptions ==
    [is_dict |-> TRUE, use_browser |-> FALSE, max_retries |-> Absent, include_links |-> FALSE]

InitScrape ==
    /\ spc = "idle"
    /\ page_options = NoPageOptions
    /\ formats = {}
    /\ attempt = 0
    /\ log = <<>>
    /\ slept = <<>>
    /\ content = 0
    /\ failed = {}
    /\ result = EmptyResult

\* page_options.get("max_retries", 3)
MaxRetries(po) == IF po.max_retries.kind = "absent" THEN PyInt(DefaultMaxRetries) ELSE po.max_retries

\* the delay with 2 * attempt for 2 ** attempt
BackoffLinear(a) == 2 * a

\* the delay after failed attempt a (scraper.py 183)
Backoff(a) == 2 ^ a

\* the last-attempt test never true
ExhaustedNever(a, n) == FALSE

\* the last-attempt test of the connection-error handler (scraper.py 181)
Exhausted(a, n) == a = n - 1

\* the inner handler of scrape (scraper.py 334-338): the error goes into
\* metadata, content is emptied, the result is returned
Handled(stage) ==
    /\ result' = [result EXCEPT !.meta_error = TRUE, !.content = FALSE]
    /\ failed' = failed \cup {stage}
    /\ spc' = "returned"

\* scrape, from its entry to the first await of the fetch (scraper.py 259-290,
\* 172-173); range(max_retries) is empty for max_retries <= 0, and a TypeError
\* for None
ScrapeCall(po, fm) ==
    /\ UNCHANGED notScrape
    /\ spc = "idle"
    /\ page_options' = po
    /\ formats' = fm
    /\ attempt' = 0
    /\ log' = <<>>
    /\ slept' = <<>>
    /\ content' = 0
    /\ IF ~po.is_dict
       THEN /\ result' = [EmptyResult EXCEPT !.error = TRUE]
            /\ failed' = {"options"}
            /\ spc' = "returned"
       ELSE IF po.use_browser
       THEN /\ result' = EmptyResult
            /\ failed' = {}
            /\ spc' = "browser"
       ELSE IF MaxRetries(po).kind = "int" /\ MaxRetries(po).v > 0
       THEN /\ result' = EmptyResult
            /\ failed' = {}
            /\ spc' = "attempt"
       ELSE /\ result' = [EmptyResult EXCEPT !.meta_error = TRUE]
            /\ failed' = {"fetch"}
            /\ spc' = "returned"

\* a mutation: every aiohttp.ClientError is retried
RetryableAny(outcome) == outcome \in {"conn", "client"}

\* the first except clause of _fetch_url (scraper.py 180): only
\* ClientConnectionError and ServerTimeoutError are retried; any other
\* aiohttp.ClientError raises ScraperError at once (scraper.py 184-185)
Retryable(outcome) == outcome = "conn"

\* one session.get of _fetch_url (scraper.py 174-185): a response, a connection
\* or server-timeout error, another aiohttp.ClientError, or any other exception
FetchAttempt(outcome) ==
    /\ UNCHANGED notScrape
    /\ spc = "attempt"
    /\ log' = Append(log, outcome)
    /\ CASE outcome = "ok" ->
              /\ content' = Len(log) + 1
              /\ spc' = "parse"
              /\ UNCHANGED <<result, failed>>
         [] outcome = "ok_empty" ->
              /\ content' = Len(log) + 1
              /\ Handled("fetch")
         [] Retryable(outcome) /\ ~Exhausted(attempt, MaxRetries(page_options).v) ->
              /\ spc' = "sleep"
              /\ UNCHANGED <<content, result, failed>>
         [] OTHER ->
              /\ Handled("fetch")
              /\ UNCHANGED content
    /\ UNCHANGED <<page_options, formats, attempt, slept>>

\* asyncio.sleep(2 ** attempt) and the next turn of the for loop (scraper.py
\* 183, 173); after the last turn line 186 raises
FetchSlept ==
    /\ UNCHANGED notScrape
    /\ spc = "sleep"
    /\ slept' = Append(slept, Backoff(attempt))
    /\ attempt' = attempt + 1
    /\ IF attempt + 1 < MaxRetries(page_options).v
       THEN spc' = "attempt" /\ UNCHANGED <<result, failed>>
       ELSE Handled("fetch")
    /\ UNCHANGED <<page_options, formats, log, content>>

\* _fetch_url_browser as a whole (scraper.py 188-233)
BrowserFetched(outcome) ==
    /\ UNCHANGED notScrape
    /\ spc = "browser"
    /\ CASE outcome = "ok" ->
              /\ content' = 1
              /\ spc' = "parse"
              /\ UNCHANGED <<result, failed>>
         [] outcome = "ok_empty" ->
              /\ content' = 1
              /\ Handled("fetch")
         [] OTHER ->
              /\ Handled("fetch")
              /\ UNCHANGED content
    /\ UNCHANGED <<page_options, formats, attempt, log, slept>>

\* BeautifulSoup, the excluded tags, the main content (scraper.py 298-312)
Parsed(ok) ==
    /\ UNCHANGED notScrape
    /\ spc = "parse"
    /\ IF ok THEN spc' = "metadata" /\ UNCHANGED <<result, failed>>
       ELSE Handled("parse")
    /\ UNCHANGED <<page_options, formats, attempt, log, slept, content>>

\* _extract_metadata (scraper.py 314-315, 117-168): it catches its own
\* exceptions and returns what it has
MetadataExtracted(ok) ==
    /\ UNCHANGED notScrape
    /\ spc = "metadata"
    /\ failed' = IF ok THEN failed ELSE failed \cup {"metadata"}
    /\ spc' = "formats"
    /\ UNCHANGED <<page_options, formats, attempt, log, slept, content, result>>

\* _generate_formats and the links (scraper.py 317-333): no format generated
\* is a ScraperError
FormatsGenerated(ok) ==
    /\ UNCHANGED notScrape
    /\ spc = "formats"
    /\ IF ok /\ GeneratedFormats(formats) # {}
       THEN /\ result' = [result EXCEPT !.content = TRUE]
            /\ spc' = IF page_options.include_links THEN "links" ELSE "returned"
            /\ UNCHANGED failed
       ELSE Handled("formats")
    /\ UNCHANGED <<page_options, formats, attempt, log, slept, content>>

\* the loop over the anchors (scraper.py 322-333): links appended before a
\* failure stay in the result
LinksExtracted(ok, some) ==
    /\ UNCHANGED notScrape
    /\ spc = "links"
    /\ IF ok
       THEN /\ result' = [result EXCEPT !.links = some]
            /\ spc' = "returned"
            /\ UNCHANGED failed
       ELSE /\ result' = [result EXCEPT !.links = some, !.meta_error = TRUE, !.content = FALSE]
            /\ failed' = failed \cup {"links"}
            /\ spc' = "returned"
    /\ UNCHANGED <<page_options, formats, attempt, log, slept, content>>

\* the caller has the result
ScrapeReturn ==
    /\ UNCHANGED notScrape
    /\ spc = "returned"
    /\ spc' = "idle"
    /\ page_options' = NoPageOptions
    /\ formats' = {}
    /\ attempt' = 0
    /\ log' = <<>>
    /\ slept' = <<>>
    /\ content' = 0
    /\ failed' = {}
    /\ result' = EmptyResult

NextScrape ==
    \/ \E po \in PageOptionSets, fm \in FormatSets : ScrapeCall(po, fm)
    \/ \E outcome \in {"ok", "ok_empty", "conn", "client", "other"} : FetchAttempt(outcome)
    \/ FetchSlept
    \/ \E outcome \in {"ok", "ok_empty", "fail"} : BrowserFetched(outcome)
    \/ \E ok \in BOOLEAN : Parsed(ok)
    \/ \E ok \in BOOLEAN : MetadataExtracted(ok)
    \/ \E ok \in BOOLEAN : FormatsGenerated(ok)
    \/ \E ok \in BOOLEAN, some \in BOOLEAN : LinksExtracted(ok, some)
    \/ ScrapeReturn

(***************************************************************************)
(* scrape_batch (scraper.py 358-378): one task per URL, each holding the   *)
(* semaphore around its scrape; gather returns the tasks' results by       *)
(* position; the loop at 373-377 fills the results dict.                   *)
(***************************************************************************)
\* the URL strings a caller passes: two of them differ only by the fragment
BatchPool ==
    {Http(HostX, <<"/", "p">>),
     Http(HostX, <<"/", "p", "#", "f">>)}

BatchLists == UNION {[1..n -> BatchPool] : n \in 0..MaxBatch}

Concurrencies == (-1)..MaxConcurrency

InitBatch ==
    /\ bpc = "idle"
    /\ burls = <<>>
    /\ bcap = 0
    /\ bdict = TRUE
    /\ sem = 0
    /\ tpc = <<>>
    /\ batch_results = <<>>
    /\ bresults = <<>>

\* what scrape returns for a URL: the result of ScrapeResult with the URL it
\* was called with in metadata.source_url (scraper.py 267)
PageResult(u, kind) ==
    [source_url |-> u, error |-> kind = "top_error", meta_error |-> kind = "meta_error",
     content |-> kind = "ok"]

ResultKinds(isdict) == IF isdict THEN {"ok", "meta_error"} ELSE {"top_error"}

\* a mutation: the semaphore admits every task
FreeAlways(value) == TRUE

\* asyncio.Semaphore.acquire goes through only while the value is positive
Free(value) == value > 0

\* a mutation: results keyed by the normalized URL
BatchKeyNormalized(u) == _normalize_url(u)

\* results[url] = result (scraper.py 375, 377): the caller's string is the key
BatchKey(u) == u

\* the dict built by the loop over zip(urls, batch_results): a later
\* occurrence of a key overwrites an earlier one
Zipped(urls, rs) ==
    [k \in {BatchKey(urls[i]) : i \in 1..Len(urls)} |->
        rs[CHOOSE i \in 1..Len(urls) :
              /\ BatchKey(urls[i]) = k
              /\ \A j \in 1..Len(urls) : BatchKey(urls[j]) = k => j <= i]]

\* scrape_batch called: asyncio.Semaphore(concurrency) raises ValueError for a
\* negative value; otherwise gather schedules one task per URL
BatchCall(urls, concurrency, isdict) ==
    /\ UNCHANGED notBatch
    /\ bpc = "idle"
    /\ burls' = urls
    /\ bcap' = concurrency
    /\ bdict' = isdict
    /\ IF concurrency < 0
       THEN /\ bpc' = "raised"
            /\ UNCHANGED <<sem, tpc, batch_results>>
       ELSE /\ bpc' = "gather"
            /\ sem' = concurrency
            /\ tpc' = [i \in 1..Len(urls) |-> "waiting"]
            /\ batch_results' = [i \in 1..Len(urls) |-> PageResult(<<>>, "none")]
    /\ UNCHANGED bresults

\* task i enters `async with semaphore`
TaskAcquire(i) ==
    /\ UNCHANGED notBatch
    /\ bpc = "gather"
    /\ i \in 1..Len(tpc)
    /\ tpc[i] = "waiting"
    /\ Free(sem)
    /\ sem' = sem - 1
    /\ tpc' = [tpc EXCEPT ![i] = "running"]
    /\ UNCHANGED <<bpc, burls, bcap, bdict, batch_results, bresults>>

\* task i's scrape returns (it never raises, scraper.py 334-356) and the
\* semaphore is released
TaskScraped(i, kind) ==
    /\ UNCHANGED notBatch
    /\ bpc = "gather"
    /\ i \in 1..Len(tpc)
    /\ tpc[i] = "running"
    /\ kind \in ResultKinds(bdict)
    /\ sem' = sem + 1
    /\ tpc' = [tpc EXCEPT ![i] = "done"]
    /\ batch_results' = [batch_results EXCEPT ![i] = PageResult(burls[i], kind)]
    /\ UNCHANGED <<bpc, burls, bcap, bdict, bresults>>

\* gather is complete: the results dict is built and returned
BatchReturn ==
    /\ UNCHANGED notBatch
    /\ bpc = "gather"
    /\ \A i \in 1..Len(tpc) : tpc[i] = "done"
    /\ bresults' = Zipped(burls, batch_results)
    /\ bpc' = "returned"
    /\ UNCHANGED <<burls, bcap, bdict, sem, tpc, batch_results>>

Tasks == 1..MaxBatch

NextBatch ==
    \/ \E urls \in BatchLists, c \in Concurrencies, d \in BOOLEAN : BatchCall(urls, c, d)
    \/ \E i \in Tasks : TaskAcquire(i)
    \/ \E i \in Tasks, k \in {"ok", "meta_error", "top_error"} : TaskScraped(i, k)
    \/ BatchReturn

(***************************************************************************)
(* _normalize_url and _should_crawl called on their own, on a Crawler      *)
(* whose visited set is given.                                             *)
(***************************************************************************)
\* k slashes
Slashes(k) == [i \in 1..k |-> "/"]

\* what comes before the path: absolute http(s) URLs, an upper-case scheme, a
\* URL without scheme, a protocol-relative one, a mailto URL, nothing
Prefixes ==
    {Http(HostX, <<>>),
     <<"HTTP", ":", "/", "/">> \o HostX,
     <<"https", ":", "/", "/", "b", ".", "x", ".", "com">>,
     HostX,
     <<"/", "/">> \o HostX,
     <<"mailto", ":", "me">>,
     <<>>}

PathBodies ==
    {<<>>, <<"/", "p">>, <<"/", "Assets", "/", "p">>, <<"/", "p", "/", ";">>,
     <<"/", "p", ";", "q">>, <<"/", "blog", "/", "post-1">>, <<"/", "about">>}

PathInputs == {b \o Slashes(k) : b \in PathBodies, k \in 0..MaxSlashes}

QueryInputs == {<<>>, <<"?">>, <<"?", "q">>, <<"?", "q", "/">>}

FragmentInputs == {<<>>, <<"#", "f">>, <<"#", "f", "/">>}

UrlInputs ==
    {a \o b \o c \o d : a \in Prefixes, b \in PathInputs, c \in QueryInputs, d \in FragmentInputs}

\* the URLs given to _should_crawl: no query, at most one slash at the end
CrawlInputs ==
    {a \o b \o Slashes(k) \o d : a \in Prefixes \ {<<>>}, b \in PathBodies, k \in 0..1,
                                 d \in {<<>>, <<"#", "f">>}}

\* patterns for exclude_paths and include_only_paths: /blog/* /about * and ""
Patterns == {<<"/", "blog", "/", "*">>, <<"/", "about">>, <<"*">>, <<>>}

CallFlavours ==
    Flavours \cup {[PlainOptions EXCEPT !.exclude_paths = <<pt>>] : pt \in Patterns}
             \cup {[PlainOptions EXCEPT !.include_only_paths = <<pt>>] : pt \in Patterns}
             \cup {[PlainOptions EXCEPT !.allow_backwards = TRUE, !.exclude_paths = <<pt>>] :
                      pt \in Patterns}

\* max_pages is varied with the other options at their defaults
CallOptions ==
    {WithLimits(f, PyNone, PyNone) : f \in CallFlavours}
        \cup {WithLimits(PlainOptions, PyNone, PyInt(k)) : k \in (-1)..MaxSeen}

\* visited sets hold normalized URLs
SeenSets ==
    {V \in SUBSET {Http(HostX, <<"/", "p">>), Http(HostX, <<"/", "about">>)} :
        Cardinality(V) <= MaxSeen}

InitCall ==
    /\ fop = "none"
    /\ fin = <<>>
    /\ fout = <<>>

\* _normalize_url(u), and _normalize_url of what it returned
Normalize(u) ==
    /\ UNCHANGED notCall
    /\ fop = "none"
    /\ fop' = "normalize"
    /\ fin' = [url |-> u]
    /\ fout' = [once |-> _normalize_url(u), twice |-> _normalize_url(_normalize_url(u))]

\* _should_crawl(u, base_url, options) with self.visited = seen
ShouldCrawl(u, base_url, options, seen) ==
    /\ UNCHANGED notCall
    /\ fop = "none"
    /\ fop' = "should_crawl"
    /\ fin' = [url |-> u, base_url |-> base_url, options |-> options, visited |-> seen]
    /\ fout' = [admit |-> _should_crawl(u, base_url, options, seen)]

(***************************************************************************)
(* Scraper._clean_markdown (scraper.py 49-96) on documents of one line     *)
(* without \r, \t, *, +, [ or ]: a line is a sequence of the tokens space, *)
(* ", #, -, >, a, by and By, so that \s is the space and the link pass     *)
(* (scraper.py 66) finds nothing.                                          *)
(***************************************************************************)
\* the length of the longest run of tokens of S in s that starts at from
Run(s, S, from) ==
    CHOOSE k \in 0..Len(s) :
        /\ from + k - 1 <= Len(s)
        /\ \A j \in from..(from + k - 1) : s[j] \in S
        /\ from + k > Len(s) \/ s[from + k] \notin S

\* str.strip for spaces, and its two halves
RStrip(s) == Take(s, Len(s) - Run([i \in 1..Len(s) |-> s[Len(s) + 1 - i]], {" "}, 1))

LStrip(s) == Drop(s, Run(s, {" "}, 1) + 1)

Strip(s) == LStrip(RStrip(s))

\* the ways ^(#+)\s*(.+?)[\s#]*$ matches s: <<number of #, number of spaces,
\* length of group 2>>
HeaderMatches(s) ==
    {c \in (1..Len(s)) \X (0..Len(s)) \X (1..Len(s)) :
        /\ c[1] <= Run(s, {"#"}, 1)
        /\ c[2] <= Run(s, {" "}, c[1] + 1)
        /\ c[1] + c[2] + c[3] <= Len(s)
        /\ \A j \in (c[1] + c[2] + c[3] + 1)..Len(s) : s[j] \in {" ", "#"}}

\* the match the regex engine finds: #+ and \s* greedy, .+? lazy
HeaderMatch(s) ==
    CHOOSE c \in HeaderMatches(s) :
        \A d \in HeaderMatches(s) :
            \/ c[1] > d[1]
            \/ c[1] = d[1] /\ c[2] > d[2]
            \/ c[1] = d[1] /\ c[2] = d[2] /\ c[3] <= d[3]

Header(s, c) == Take(s, c[1]) \o <<" ">> \o SubSeq(s, c[1] + c[2] + 1, c[1] + c[2] + c[3])

\* re.sub(r"^(#+)\s*(.+?)[\s#]*$", r"\1 \2", ...) (scraper.py 56)
FixHeaders(s) == IF HeaderMatches(s) = {} THEN s ELSE Header(s, HeaderMatch(s))

\* re.sub(r'^"(.+?)"$', r"> \1", ...) (scraper.py 59)
FixQuotes(s) ==
    IF Len(s) >= 3 /\ s[1] = "\"" /\ s[Len(s)] = "\""
    THEN <<">", " ">> \o SubSeq(s, 2, Len(s) - 1)
    ELSE s

\* the ways ^by\s+(.+?)\s*$ matches s: <<number of spaces, length of group 1>>
ByMatches(s) ==
    {c \in (1..Len(s)) \X (1..Len(s)) :
        /\ s[1] = "by"
        /\ c[1] <= Run(s, {" "}, 2)
        /\ 1 + c[1] + c[2] <= Len(s)
        /\ \A j \in (1 + c[1] + c[2] + 1)..Len(s) : s[j] = " "}

ByMatch(s) ==
    CHOOSE c \in ByMatches(s) :
        \A d \in ByMatches(s) : c[1] > d[1] \/ (c[1] = d[1] /\ c[2] <= d[2])

\* re.sub(r"^by\s+(.+?)\s*$", r"By \1", ...) (scraper.py 60)
FixBy(s) ==
    IF ByMatches(s) = {} THEN s
    ELSE <<"By", " ">> \o SubSeq(s, 2 + ByMatch(s)[1], 1 + ByMatch(s)[1] + ByMatch(s)[2])

\* the ways ^\s*[-*+]\s*(.+)$ matches s: <<spaces before the marker, spaces
\* after it>>, the group being the rest of the line
ListMatches(s) ==
    {c \in (0..Len(s)) \X (0..Len(s)) :
        /\ c[1] <= Run(s, {" "}, 1)
        /\ c[1] + 1 <= Len(s)
        /\ s[c[1] + 1] = "-"
        /\ c[2] <= Run(s, {" "}, c[1] + 2)
        /\ c[1] + 1 + c[2] < Len(s)}

ListMatch(s) ==
    CHOOSE c \in ListMatches(s) :
        \A d \in ListMatches(s) : c[1] > d[1] \/ (c[1] = d[1] /\ c[2] >= d[2])

\* re.sub(r"^\s*[-*+]\s*(.+)$", r"- \1", ...) (scraper.py 63)
FixLists(s) ==
    IF ListMatches(s) = {} THEN s
    ELSE <<"-", " ">> \o Drop(s, ListMatch(s)[1] + ListMatch(s)[2] + 2)

\* Scraper._clean_markdown: trailing blanks, headers, quotes, attributions,
\* lists, then the one section stripped (scraper.py 53-94)
_clean_markdown(markdown) ==
    Strip(FixLists(FixBy(FixQuotes(FixHeaders(RStrip(markdown))))))

MarkdownTokens == {" ", "\"", "#", "-", "a", "by"}

MarkdownInputs == UNION {[1..n -> MarkdownTokens] : n \in 0..MaxLine}

\* _clean_markdown(markdown), and _clean_markdown of what it returned
CleanMarkdown(markdown) ==
    /\ UNCHANGED notCall
    /\ fop = "none"
    /\ fop' = "clean"
    /\ fin' = [markdown |-> markdown]
    /\ fout' = [once |-> _clean_markdown(markdown),
                twice |-> _clean_markdown(_clean_markdown(markdown))]

(***************************************************************************)
(* Scraper._extract_metadata (scraper.py 98-168): the tags are read in one *)
(* fixed order inside one try block.  urljoin raises ValueError for an     *)
(* href such as "http://[x", so reading the base tag or the canonical link *)
(* can raise; a script whose JSON does not load is skipped by the inner    *)
(* handler (scraper.py 163-164).                                           *)
(***************************************************************************)
MetadataOrder ==
    <<"base", "title", "language", "description", "keywords", "viewport", "canonical",
      "og", "twitter", "schema">>

MetadataTags == {MetadataOrder[i] : i \in 1..Len(MetadataOrder)}

Position(tag) == CHOOSE i \in 1..Len(MetadataOrder) : MetadataOrder[i] = tag

\* the tags whose reading can fail, and "none"
Failing == {"none", "base", "canonical", "schema"}

\* whether the failure leaves the try block: not when no such tag is in the
\* document, and not for a script (its own handler goes on to the next one)
Raises(present, failing) == failing \in present /\ failing \in {"base", "canonical"}

\* the metadata keys _extract_metadata has filled when it returns
_extract_metadata(present, failing) ==
    {tag \in present \ {"base", failing} :
        Raises(present, failing) => Position(tag) < Position(failing)}

ExtractMetadata(present, failing) ==
    /\ UNCHANGED notCall
    /\ fop = "none"
    /\ fop' = "metadata"
    /\ fin' = [present |-> present, failing |-> failing]
    /\ fout' = [extracted |-> _extract_metadata(present, failing)]

\* the hosts given to _is_same_domain, with one to three labels
HostInputs ==
    {<<"a", ".", "x", ".", "com">>, <<"b", ".", "x", ".", "com">>, <<"x", ".", "com">>,
     <<"a", ".", "com">>, <<"b", ".", "com">>, <<"com">>}

DomainInputs == {Http(h, pth) : h \in HostInputs, pth \in {<<>>, <<"/", "p">>}}

\* _is_same_domain(url1, url2, include_subdomains) for both values of
\* include_subdomains and both orders of the URLs
IsSameDomain(url1, url2) ==
    /\ UNCHANGED notCall
    /\ fop = "none"
    /\ fop' = "same_domain"
    /\ fin' = [url1 |-> url1, url2 |-> url2]
    /\ fout' = [strict |-> _is_same_domain(url1, url2, FALSE),
                loose |-> _is_same_domain(url1, url2, TRUE),
                strict_swapped |-> _is_same_domain(url2, url1, FALSE),
                loose_swapped |-> _is_same_domain(url2, url1, TRUE)]

NextCall ==
    \/ fop = "none" /\ \E markdown \in MarkdownInputs : CleanMarkdown(markdown)
    \/ fop = "none" /\ \E present \in SUBSET MetadataTags, failing \in Failing :
                           ExtractMetadata(present, failing)
    \/ fop = "none" /\ \E url1, url2 \in DomainInputs : IsSameDomain(url1, url2)
    \/ fop = "none" /\ \E u \in UrlInputs : Normalize(u)
    \/ fop = "none" /\ \E u \in CrawlInputs, options \in CallOptions, seen \in SeenSets :
                           ShouldCrawl(u, StartUrl, options, seen)

(***************************************************************************)
(* The job layer: JobManager over the jobs and scraped_content tables, the *)
(* routes that start a scrape or a crawl in the background, the status     *)
(* route and the history route.  Dicts are records, {} and None are <<>>,  *)
(* messages are sequences of strings.                                      *)
(***************************************************************************)
MaxJobs == 2

MaxDays == 1

None == <<>>

\* dict.get(key, default)
Get(d, key, default) == IF key \in DOMAIN d THEN d[key] ELSE default

\* what Scraper.scrape returns to background_scrape (scraper.py 261-273): after
\* a failed fetch or extraction the inner handler has put the message into
\* metadata["error"] and emptied content (334-338); after an exception outside
\* the inner try the top-level error is set (341-356)
Scraped(kind) ==
    [error |-> IF kind = "top_error" THEN <<"Scraping failed for ", "url">> ELSE None,
     metadata |->
        CASE kind = "ok" -> [source_url |-> StartUrl, status |-> <<"200">>]
          [] kind = "meta_error" ->
                [source_url |-> StartUrl, status |-> None,
                 error |-> <<"Content processing failed: ", "No content retrieved">>]
          [] OTHER -> [source_url |-> StartUrl, status |-> <<"failed">>],
     content |-> IF kind = "ok" THEN [markdown |-> <<"text">>] ELSE None]

\* the entry crawl stores for a page whose scrape returned Scraped(kind)
\* (crawler.py 239-243)
CrawledPage(kind) ==
    [content |-> Scraped(kind).content, metadata |-> Scraped(kind).metadata, links |-> <<>>]

\* what Crawler.crawl returns (crawler.py 193-200, 265-268)
Crawled(pages, depth_reached) ==
    [pages |-> pages,
     metadata |-> [start_url |-> StartUrl, total_pages |-> Cardinality(DOMAIN pages),
                   depth_reached |-> depth_reached]]

\* an operation that returned, and one that raised
Returned(value) == [raised |-> FALSE, value |-> value, message |-> None]

Raised(message) == [raised |-> TRUE, value |-> None, message |-> message]

NoOutcome == [raised |-> FALSE, value |-> None, message |-> None]

\* page_options comes out of model_dump (scrape.py 98), a dict: scrape returns
\* with or without a failure inside it
ScrapeOutcomes == {Returned(Scraped(kind)) : kind \in {"ok", "meta_error"}}

\* crawl raises on a negative max_depth, returns no page with max_depth 0 and
\* else the pages it fetched, failed ones included
CrawlOutcomes ==
    {Raised(<<"max_depth must be a non-negative number">>),
     Returned(Crawled(<<>>, -1))}
    \cup {Returned(Crawled(Put(<<>>, StartUrl, CrawledPage(kind)), 0)) :
            kind \in {"ok", "meta_error"}}

\* a mutation: the row is built and never added
create_job_uncommitted(J, job_id, url, operation, t) == J

\* JobManager.create_job: the table with the new row committed
create_job(J, job_id, url, operation, t) ==
    Put(J, job_id,
        [url |-> url, operation |-> operation, status |-> "pending", created_at |-> t,
         completed_at |-> PyNone, error |-> None])

\* JobManager.update_job: the two tables after the commit
update_job(J, SC, job_id, status, res, error, t) ==
    IF job_id \notin DOMAIN J
    THEN [jobs |-> J, scraped_content |-> SC]
    ELSE [jobs |->
            [J EXCEPT ![job_id].status = status,
                      ![job_id].completed_at =
                          IF status \in {"completed", "failed"} THEN PyInt(t) ELSE @,
                      ![job_id].error = IF error # None THEN error ELSE @],
          scraped_content |->
            IF res # None /\ status = "completed"
            THEN Put(SC, job_id,
                     [url |-> J[job_id].url,
                      metadata_content |-> Get(res, "metadata_content", <<>>),
                      content |-> Get(res, "content", <<>>)])
            ELSE SC]

\* JobManager.get_job_status
get_job_status(J, SC, job_id) ==
    IF job_id \notin DOMAIN J
    THEN None
    ELSE IF J[job_id].status = "completed" /\ job_id \in DOMAIN SC
         THEN [id |-> job_id, operation |-> J[job_id].operation, status |-> J[job_id].status,
               url |-> J[job_id].url, created_at |-> J[job_id].created_at,
               completed_at |-> J[job_id].completed_at, error |-> J[job_id].error,
               result |-> [metadata_content |-> SC[job_id].metadata_content,
                           content |-> SC[job_id].content]]
         ELSE [id |-> job_id, operation |-> J[job_id].operation, status |-> J[job_id].status,
               url |-> J[job_id].url, created_at |-> J[job_id].created_at,
               completed_at |-> J[job_id].completed_at, error |-> J[job_id].error]

\* background_scrape, from the result of scrape to the update of the job
background_scrape(J, SC, job_id, outcome, t) ==
    IF outcome.raised
    THEN update_job(J, SC, job_id, "failed", None, <<"Scraping failed: ">> \o outcome.message, t)
    ELSE IF outcome.value.error # None
         THEN \* normalized_result has no "metadata_content": KeyError
              update_job(J, SC, job_id, "failed", None,
                         <<"Scraping failed: ", "'metadata_content'">>, t)
         ELSE update_job(J, SC, job_id, "completed",
                         [metadata |-> Get(outcome.value, "metadata", <<>>),
                          content |-> Get(outcome.value, "content", <<>>)],
                         None, t)

\* a mutation: background_crawl without its except branch
background_crawl_unhandled(J, SC, job_id, outcome, t) ==
    IF outcome.raised
    THEN [jobs |-> J, scraped_content |-> SC]
    ELSE update_job(J, SC, job_id, "completed",
                    [metadata_content |->
                        [total_pages |-> outcome.value.metadata.total_pages,
                         depth_reached |-> outcome.value.metadata.depth_reached],
                     content |-> [pages |-> outcome.value.pages]],
                    None, t)

\* background_crawl, from the result of crawl to the update of the job
background_crawl(J, SC, job_id, outcome, t) ==
    IF outcome.raised
    THEN update_job(J, SC, job_id, "failed", None, <<"Crawling failed: ">> \o outcome.message, t)
    ELSE update_job(J, SC, job_id, "completed",
                    [metadata_content |->
                        [total_pages |-> outcome.value.metadata.total_pages,
                         depth_reached |-> outcome.value.metadata.depth_reached],
                     content |-> [pages |-> outcome.value.pages]],
                    None, t)

NoHandler == [route |-> "none", at |-> "none", job_id |-> 0]

NoResponse == [kind |-> "none", request |-> <<>>, code |-> 0, body |-> <<>>]

InitJobs ==
    /\ jobs = <<>>
    /\ scraped_content = <<>>
    /\ background = <<>>
    /\ handler = NoHandler
    /\ response = NoResponse
    /\ now = 0

\* no handler is running and no response is waiting to be sent
Idle == handler = NoHandler /\ response = NoResponse

\* uuid4(): an id that no row has
NewId(J) == Cardinality(DOMAIN J) + 1

\* POST /api/scrape/async, up to the return of create_job
StartScrape ==
    /\ UNCHANGED notJobs
    /\ Idle
    /\ Cardinality(DOMAIN jobs) < MaxJobs
    /\ jobs' = create_job(jobs, NewId(jobs), StartUrl, "scrape", now)
    /\ handler' = [route |-> "start_scrape", at |-> "created", job_id |-> NewId(jobs)]
    /\ UNCHANGED <<scraped_content, background, response, now>>

\* POST /api/crawl, up to the return of create_job
StartCrawl ==
    /\ UNCHANGED notJobs
    /\ Idle
    /\ Cardinality(DOMAIN jobs) < MaxJobs
    /\ jobs' = create_job(jobs, NewId(jobs), StartUrl, "crawl", now)
    /\ handler' = [route |-> "start_crawl", at |-> "created", job_id |-> NewId(jobs)]
    /\ UNCHANGED <<scraped_content, background, response, now>>

\* background_tasks.add_task(...)
AddTask ==
    /\ UNCHANGED notJobs
    /\ handler.at = "created"
    /\ background' =
          Put(background, handler.job_id,
              [fn |-> IF handler.route = "start_scrape" THEN "background_scrape"
                                                         ELSE "background_crawl",
               state |-> "added", outcome |-> NoOutcome])
    /\ handler' = [handler EXCEPT !.at = "added"]
    /\ UNCHANGED <<jobs, scraped_content, response, now>>

\* the start route returns
Respond ==
    /\ UNCHANGED notJobs
    /\ handler.at = "added"
    /\ response' =
          [kind |-> "started", request |-> [route |-> handler.route], code |-> 200,
           body |-> [job_id |-> handler.job_id, status |-> "pending", url |-> StartUrl]]
    /\ handler' = NoHandler
    /\ UNCHANGED <<jobs, scraped_content, background, now>>

\* the response goes out; the background tasks added run after it
Send ==
    /\ UNCHANGED notJobs
    /\ response # NoResponse
    /\ response' = NoResponse
    /\ UNCHANGED <<jobs, scraped_content, background, handler, now>>

\* the background task of job j can run: it was added and the response is out
Runnable(j, fn) ==
    /\ Idle
    /\ j \in DOMAIN background
    /\ background[j].fn = fn
    /\ background[j].state = "added"

\* background_scrape for job j, whose scrape ended as outcome
BackgroundScrape(j, outcome) ==
    /\ UNCHANGED notJobs
    /\ Runnable(j, "background_scrape")
    /\ jobs' = background_scrape(jobs, scraped_content, j, outcome, now).jobs
    /\ scraped_content' =
          background_scrape(jobs, scraped_content, j, outcome, now).scraped_content
    /\ background' = [background EXCEPT ![j].state = "done", ![j].outcome = outcome]
    /\ UNCHANGED <<handler, response, now>>

\* background_crawl for job j, whose crawl ended as outcome
BackgroundCrawl(j, outcome) ==
    /\ UNCHANGED notJobs
    /\ Runnable(j, "background_crawl")
    /\ jobs' = background_crawl(jobs, scraped_content, j, outcome, now).jobs
    /\ scraped_content' =
          background_crawl(jobs, scraped_content, j, outcome, now).scraped_content
    /\ background' = [background EXCEPT ![j].state = "done", ![j].outcome = outcome]
    /\ UNCHANGED <<handler, response, now>>

\* GET /api/jobs/{job_id}
GetJobStatus(job_id) ==
    /\ UNCHANGED notJobs
    /\ Idle
    /\ response' =
          IF get_job_status(jobs, scraped_content, job_id) = None
          THEN [kind |-> "status", request |-> [job_id |-> job_id], code |-> 404,
                body |-> [detail |-> <<"Job not found">>]]
          ELSE [kind |-> "status", request |-> [job_id |-> job_id], code |-> 200,
                body |-> get_job_status(jobs, scraped_content, job_id)]
    /\ UNCHANGED <<jobs, scraped_content, background, handler, now>>

\* the status parameter of the history route; "" is no parameter, which is as
\* falsy as the empty string
StatusFilters == {"", "pending", "completed", "failed"}

\* its days parameter
DaysFilters == {PyNone} \cup {PyInt(n) : n \in 0..MaxDays}

\* its limit (gt=0) and offset (ge=0)
Limits == {1, 2}

Offsets == {0, 1}

\* the rows the query keeps (history.py 23-30)
Query(J, status, days, t) ==
    {j \in DOMAIN J :
        /\ status # "" => J[j].status = status
        /\ Truthy(days) => J[j].created_at >= t - days.v}

\* a mutation: oldest first
Ascending(a, b) == a <= b

\* created_at.desc()
Descending(a, b) == a >= b

\* the orders in which order_by can hand out the rows S: rows created at the
\* same time come in any order
Orders(J, S) ==
    {s \in [1..Cardinality(S) -> S] :
        \A i, k \in 1..Cardinality(S) :
            i < k => s[i] # s[k] /\ Descending(J[s[i]].created_at, J[s[k]].created_at)}

\* .offset(offset).limit(limit)
OffsetLimit(s, offset, limit) ==
    [i \in 1..(IF Len(s) - offset < limit
               THEN (IF Len(s) < offset THEN 0 ELSE Len(s) - offset)
               ELSE limit) |-> s[offset + i]]

\* one job of the history (history.py 39-49)
HistoryJob(J, j) ==
    [id |-> j, operation |-> J[j].operation, status |-> J[j].status, url |-> J[j].url,
     created_at |-> J[j].created_at, completed_at |-> J[j].completed_at]

\* GET /api/history
GetHistory(limit, offset, status, days) ==
    /\ UNCHANGED notJobs
    /\ Idle
    /\ \E s \in Orders(jobs, Query(jobs, status, days, now)) :
          response' =
             [kind |-> "history",
              request |-> [limit |-> limit, offset |-> offset, status |-> status, days |-> days],
              code |-> 200,
              body |-> [total |-> Cardinality(Query(jobs, status, days, now)),
                        offset |-> offset, limit |-> limit,
                        jobs |-> [i \in DOMAIN OffsetLimit(s, offset, limit) |->
                                    HistoryJob(jobs, OffsetLimit(s, offset, limit)[i])]]]
    /\ UNCHANGED <<jobs, scraped_content, background, handler, now>>

\* a day passes
Tick ==
    /\ UNCHANGED notJobs
    /\ Idle
    /\ now < MaxDays
    /\ now' = now + 1
    /\ UNCHANGED <<jobs, scraped_content, background, handler, response>>

JobIds == 1..MaxJobs

\* the API with its status route
NextJobs ==
    \/ StartScrape
    \/ StartCrawl
    \/ AddTask
    \/ Respond
    \/ Send
    \/ \E j \in JobIds, outcome \in ScrapeOutcomes : BackgroundScrape(j, outcome)
    \/ \E j \in JobIds, outcome \in CrawlOutcomes : BackgroundCrawl(j, outcome)
    \/ \E job_id \in JobIds : GetJobStatus(job_id)

\* the API with its history route; what the operations return is not listed
NextHistory ==
    \/ StartScrape
    \/ StartCrawl
    \/ AddTask
    \/ Respond
    \/ Send
    \/ \E j \in JobIds : BackgroundScrape(j, Returned(Scraped("ok")))
    \/ \E j \in JobIds : BackgroundCrawl(j, Raised(<<"max_depth must be a non-negative number">>))
    \/ Tick
    \/ \E limit \in Limits, offset \in Offsets, status \in StatusFilters, days \in DaysFilters :
          GetHistory(limit, offset, status, days)

\* the statuses update_job is called with
Statuses == {"completed", "failed"}

\* JobManager.update_job called for a job id that has no row
\* (job_manager.py 64-66)
UpdateUnknown(job_id, status) ==
    /\ UNCHANGED notJobs
    /\ Idle
    /\ job_id \notin DOMAIN jobs
    /\ jobs' = update_job(jobs, scraped_content, job_id, status, None,
                          IF status = "failed" THEN <<"Scraping failed: ">> ELSE None, now).jobs
    /\ scraped_content' =
          update_job(jobs, scraped_content, job_id, status, None,
                     IF status = "failed" THEN <<"Scraping failed: ">> ELSE None,
                     now).scraped_content
    /\ UNCHANGED <<background, handler, response, now>>

\* the job routes, and update_job called for ids of no job
NextUpdates ==
    \/ StartScrape
    \/ StartCrawl
    \/ AddTask
    \/ Respond
    \/ Send
    \/ \E j \in JobIds, outcome \in ScrapeOutcomes : BackgroundScrape(j, outcome)
    \/ \E j \in JobIds, outcome \in CrawlOutcomes : BackgroundCrawl(j, outcome)
    \/ \E job_id \in JobIds : GetJobStatus(job_id)
    \/ \E job_id \in 0..MaxJobs, status \in Statuses : UpdateUnknown(job_id, status)

(***************************************************************************)
(* _fetch_url_browser (scraper.py 188-233), step by step.  The Playwright  *)
(* driver is started on entering `async with async_playwright()` (195) and *)
(* stopped on leaving that block, which ends with the actions loop (226);  *)
(* lines 227-232 come after the block.  The trace lists the page           *)
(* operations applied, each with whether the driver was alive.             *)
(***************************************************************************)
MaxActions == 2

\* an action dict of page_options["actions"]: its type and whether the
\* selector (click, write) or key (press) it needs is given
Action(type, given) == [type |-> type, given |-> given]

ActionTypes == {"wait", "click", "scroll", "write", "press", "hover"}

ActionPool == {Action(t, g) : t \in ActionTypes, g \in BOOLEAN}

ActionLists == UNION {[1..n -> ActionPool] : n \in 0..MaxActions}

\* milliseconds of wait_for and post_action_wait: absent, 0 (both falsy)
\* or a positive number
WaitValues == {Absent, PyInt(0), PyInt(500)}

BrowserOptions ==
    {[wait_for |-> w, actions |-> a, post_action_wait |-> p] :
        w \in WaitValues, a \in ActionLists, p \in WaitValues}

\* the if/elif chain of the loop (scraper.py 205-226): the page call an
\* action makes, "none" where the chain makes no call
PageCall(action) ==
    CASE action.type = "wait" -> "wait_for_timeout"
      [] action.type = "click" /\ action.given -> "click"
      [] action.type = "scroll" -> "evaluate"
      [] action.type = "write" /\ action.given -> "fill"
      [] action.type = "press" /\ action.given -> "press"
      [] OTHER -> "none"

\* a page operation applied: the step of the function it belongs to, the
\* call, and whether the driver was alive when it was made
Applied(step, op) == [step |-> step, op |-> op, alive |-> driver = "alive"]

NoBrowserOptions == [wait_for |-> Absent, actions |-> <<>>, post_action_wait |-> Absent]

InitBrowser ==
    /\ wpc = "idle"
    /\ driver = "none"
    /\ wopts = NoBrowserOptions
    /\ wi = 1
    /\ trace = <<>>

\* the call, and entering the block (scraper.py 195)
BrowserCall(po) ==
    /\ UNCHANGED notBrowser
    /\ wpc = "idle"
    /\ wopts' = po
    /\ driver' = "alive"
    /\ wi' = 1
    /\ trace' = <<>>
    /\ wpc' = "launch"

\* an exception inside the block: leaving the block stops the driver, and
\* the exception goes on to the caller
RaisedInside ==
    /\ driver' = "stopped"
    /\ wpc' = "raised"

\* launch, new_context, new_page (scraper.py 196-198)
Launched(ok) ==
    /\ UNCHANGED notBrowser
    /\ wpc = "launch"
    /\ IF ok THEN wpc' = "goto" /\ UNCHANGED driver ELSE RaisedInside
    /\ UNCHANGED <<wopts, wi, trace>>

\* page.goto (scraper.py 199)
Navigated(ok) ==
    /\ UNCHANGED notBrowser
    /\ wpc = "goto"
    /\ trace' = Append(trace, Applied("navigate", "goto"))
    /\ IF ok THEN wpc' = "wait_for" /\ UNCHANGED driver ELSE RaisedInside
    /\ UNCHANGED <<wopts, wi>>

\* the optional wait_for (scraper.py 201-202)
WaitedFor ==
    /\ UNCHANGED notBrowser
    /\ wpc = "wait_for"
    /\ trace' = IF Truthy(wopts.wait_for)
                THEN Append(trace, Applied("wait_for", "wait_for_timeout"))
                ELSE trace
    /\ wpc' = "actions"
    /\ UNCHANGED <<driver, wopts, wi>>

\* one turn of the loop over the actions (scraper.py 204-226); a call may
\* raise (a selector that is not found, say)
ActionRun(ok) ==
    /\ UNCHANGED notBrowser
    /\ wpc = "actions"
    /\ wi <= Len(wopts.actions)
    /\ LET op == PageCall(wopts.actions[wi])
       IN  IF op = "none"
           THEN /\ ok
                /\ wi' = wi + 1
                /\ UNCHANGED <<trace, wpc, driver>>
           ELSE /\ trace' = Append(trace, Applied("action", op))
                /\ IF ok
                   THEN wi' = wi + 1 /\ UNCHANGED <<wpc, driver>>
                   ELSE RaisedInside /\ UNCHANGED wi
    /\ UNCHANGED wopts

\* the loop is over and the block is left (scraper.py 226-227): the driver
\* started at 195 is stopped
BlockLeft ==
    /\ UNCHANGED notBrowser
    /\ wpc = "actions"
    /\ wi > Len(wopts.actions)
    /\ driver' = "stopped"
    /\ wpc' = "post_action_wait"
    /\ UNCHANGED <<wopts, wi, trace>>

\* what a call on the page of a stopped driver does is the library's: it
\* raises or it returns
CallOutcomes == {"returned", "raised"}

\* the optional post_action_wait (scraper.py 227-228)
PostActionWaited(outcome) ==
    /\ UNCHANGED notBrowser
    /\ wpc = "post_action_wait"
    /\ IF Truthy(wopts.post_action_wait)
       THEN /\ trace' = Append(trace, Applied("post_action_wait", "wait_for_timeout"))
            /\ wpc' = IF outcome = "returned" THEN "content" ELSE "raised"
       ELSE /\ outcome = "returned"
            /\ wpc' = "content"
            /\ UNCHANGED trace
    /\ UNCHANGED <<driver, wopts, wi>>

\* page.content() and page.url (scraper.py 230-231)
ContentRead(outcome) ==
    /\ UNCHANGED notBrowser
    /\ wpc = "content"
    /\ trace' = Append(trace, Applied("read", "content"))
    /\ wpc' = IF outcome = "returned" THEN "close" ELSE "raised"
    /\ UNCHANGED <<driver, wopts, wi>>

\* browser.close() and the return (scraper.py 232-233)
BrowserClosed(outcome) ==
    /\ UNCHANGED notBrowser
    /\ wpc = "close"
    /\ trace' = Append(trace, Applied("teardown", "close"))
    /\ wpc' = IF outcome = "returned" THEN "returned" ELSE "raised"
    /\ UNCHANGED <<driver, wopts, wi>>

NextBrowser ==
    \/ \E po \in BrowserOptions : BrowserCall(po)
    \/ \E ok \in BOOLEAN : Launched(ok)
    \/ \E ok \in BOOLEAN : Navigated(ok)
    \/ WaitedFor
    \/ \E ok \in BOOLEAN : ActionRun(ok)
    \/ BlockLeft
    \/ \E outcome \in CallOutcomes : PostActionWaited(outcome)
    \/ \E outcome \in CallOutcomes : ContentRead(outcome)
    \/ \E outcome \in CallOutcomes : BrowserClosed(outcome)

vars == <<crawlVars, scrapeVars, batchVars, callVars, jobVars, browserVars>>

Init == InitCrawl /\ InitScrape /\ InitBatch /\ InitCall /\ InitJobs /\ InitBrowser

\* the crawler in use
Next == NextCrawl

Spec == Init /\ [][Next]_vars

\* a turn of the for loop of crawl (crawler.py 209-223), whichever way its
\* _should_crawl test goes: every turn CrawlFor can take is one of these
ForTurn(c) ==
    /\ UNCHANGED notCrawl
    /\ pc[c] = "for"
    /\ IF current_urls[c] = {}
       THEN /\ current_depth' = [current_depth EXCEPT ![c] = Deeper(@)]
            /\ pc' = [pc EXCEPT ![c] = "while"]
            /\ UNCHANGED <<visited, current_urls, current_url, normalized, fetched>>
       ELSE \E cu \in current_urls[c], admitted \in BOOLEAN :
            /\ current_urls' = [current_urls EXCEPT ![c] = @ \ {cu}]
            /\ IF admitted
               THEN /\ current_url' = [current_url EXCEPT ![c] = cu]
                    /\ normalized' = [normalized EXCEPT ![c] = _normalize_url(cu)]
                    /\ visited' = visited \cup {_normalize_url(cu)}
                    /\ fetched' = [fetched EXCEPT ![c] = Counted(@, _normalize_url(cu))]
                    /\ pc' = [pc EXCEPT ![c] = "scrape"]
               ELSE UNCHANGED <<current_url, normalized, visited, fetched, pc>>
            /\ UNCHANGED current_depth
    /\ UNCHANGED <<queue, call, results, waves, chains>>

\* the crawler in use, where the event loop runs every step a call can take
\* and every scrape returns
SpecFair ==
    /\ Spec
    /\ WF_vars(CrawlWhile(Caller))
    /\ WF_vars(ForTurn(Caller))
    /\ WF_vars(\E res \in ScrapeResults(call[Caller].options) : CrawlScraped(Caller, res))

\* the scraper in use
SpecScrape == Init /\ [][NextScrape]_vars

\* scrape_batch in use
SpecBatch == Init /\ [][NextBatch]_vars

\* two callers on one Crawler
SpecOverlap == Init /\ [][NextOverlap]_vars

\* _normalize_url and _should_crawl in use
SpecCall == Init /\ [][NextCall]_vars

\* the job routes in use
SpecJobs == Init /\ [][NextJobs]_vars

\* the history route in use
SpecHistory == Init /\ [][NextHistory]_vars

\* the browser fetch in use
SpecBrowser == Init /\ [][NextBrowser]_vars

\* the job routes in use, where a start handler runs to its return, the
\* response is sent, and the background task added is then run by the event
\* loop, whatever other requests come in, its scrape or crawl returning or
\* raising
SpecJobsFair ==
    /\ Init /\ [][NextUpdates]_vars
    /\ WF_vars(AddTask)
    /\ WF_vars(Respond)
    /\ WF_vars(Send)
    /\ \A j \in JobIds :
          /\ SF_vars(\E outcome \in ScrapeOutcomes : BackgroundScrape(j, outcome))
          /\ SF_vars(\E outcome \in CrawlOutcomes : BackgroundCrawl(j, outcome))

\* the event loop runs every task that can run, and every scrape returns
SpecBatchFair ==
    /\ SpecBatch
    /\ \A i \in Tasks : WF_vars(TaskAcquire(i))
    /\ \A i \in Tasks : WF_vars(\E k \in {"ok", "meta_error", "top_error"} : TaskScraped(i, k))
    /\ WF_vars(BatchReturn)

(***************************************************************************)
(* Properties of crawl.                                                    *)
(***************************************************************************)
\* a crawl that passed validation and has not yet been handed back
Crawling(c) == call[c].op = "crawl" /\ pc[c] \in {"while", "for", "scrape", "done"}

Pages(c) == DOMAIN results[c].pages

\* C1: in a crawl with max_pages = N >= 1 the visited set never holds more
\* than N URLs, and the pages map never has more than N entries.
C1_PageCap ==
    \A c \in Sessions :
        (Crawling(c) /\ call[c].options.max_pages.kind = "int") =>
            /\ Cardinality(visited) <= call[c].options.max_pages.v
            /\ Cardinality(Pages(c)) <= call[c].options.max_pages.v

\* the cap bites: N URLs are visited and the wave still holds one that is not
C1_Witness ==
    \E c \in Sessions :
        /\ Crawling(c) /\ pc[c] = "for"
        /\ call[c].options.max_pages = PyInt(MaxPagesOpt)
        /\ Cardinality(visited) = MaxPagesOpt
        /\ \E u \in current_urls[c] : _normalize_url(u) \notin visited

\* C2 as claimed: a crawl with max_depth 0 of an admissible start URL returns
\* with exactly the start URL fetched and as the only entry of pages.
C2_DepthZeroFetchesStart ==
    \A c \in Sessions :
        (/\ call[c].op = "crawl" /\ pc[c] = "done"
         /\ call[c].options.max_depth = PyInt(0)
         /\ _should_crawl(call[c].url, call[c].url, call[c].options, {})
         /\ call[c].options.page_options_is_dict) =>
            /\ DOMAIN fetched[c] = {_normalize_url(call[c].url)}
            /\ Pages(c) = {_normalize_url(call[c].url)}

\* C3: within one call no URL is handed to scrape more than once.
C3_FetchedOnce == \A c \in Sessions : \A u \in DOMAIN fetched[c] : fetched[c][u] <= 1

\* the wave holds a URL that was fetched earlier in the session
C3_Witness ==
    \E c \in Sessions :
        /\ Crawling(c) /\ pc[c] = "for"
        /\ \E u \in current_urls[c] :
              _normalize_url(u) \in DOMAIN fetched[c] /\ _normalize_url(u) \in visited

\* C4 as claimed: no URL of the queue has its normalized form in visited.
C4_QueueDisjointFromVisited == \A u \in queue : _normalize_url(u) \notin visited

\* C4 amended: a URL enters the queue only while its normalized form is not in
\* visited.
C4_QueuedWhenUnvisited ==
    [][\A u \in queue' \ queue : _normalize_url(u) \notin visited']_vars

\* a page of the wave queued a URL of the same wave, which was then fetched
C4_Witness ==
    \E c \in Sessions :
        /\ Crawling(c) /\ pc[c] \in {"for", "scrape"}
        /\ \E u \in queue : _normalize_url(u) \in visited

\* C5: a crawl call that passes validation and a map call start by emptying
\* visited, and no step of a running crawl removes a URL from it.
C5_VisitedResetThenGrows ==
    [][\A c \in Sessions :
         /\ (pc[c] = "idle" /\ pc'[c] \in {"while", "map_scrape"}) => visited' = {}
         /\ (Crawling(c) /\ pc'[c] # "idle") => visited \subseteq visited']_vars

\* the set has grown over two waves of a session
C5_Witness ==
    \E c \in Sessions :
        /\ Crawling(c) /\ pc[c] = "scrape" /\ current_depth[c] >= 1
        /\ Cardinality(visited) >= 2

\* max_depth negative or not a number
BadDepth(x) == x.kind = "str" \/ (x.kind \in {"int", "float"} /\ x.v < 0)

\* max_pages given and not a positive integer
BadPages(x) == x.kind # "none" /\ ~(x.kind = "int" /\ x.v >= 1)

\* C6: a crawl call with a bad max_depth or max_pages raises at entry: nothing
\* is fetched, visited and queue stay as they were.
C6_ValidationLeavesState ==
    [][\A c \in Sessions :
         (/\ pc[c] = "idle" /\ pc'[c] # "idle" /\ call'[c].op = "crawl"
          /\ BadDepth(call'[c].options.max_depth) \/ BadPages(call'[c].options.max_pages)) =>
            /\ pc'[c] = "raised"
            /\ fetched'[c] = <<>>
            /\ visited' = visited
            /\ queue' = queue]_vars

\* a rejected call on an instance that still holds an earlier crawl's sets
C6_Witness ==
    \E c \in Sessions :
        /\ pc[c] = "raised" /\ call[c].op = "crawl"
        /\ visited # {} /\ queue # {}

\* C7: when scrape comes back to a crawl whose fetch or extraction failed (no
\* content), the URL has an entry in pages that carries the error, the for
\* loop goes on with the wave's other URLs and the queue keeps what it held;
\* crawl raises only at validation, and returns only when the loop's own
\* condition ends it.
C7_FailureDoesNotAbort ==
    /\ [][\A c \in Sessions :
            (pc[c] = "scrape" /\ pc'[c] # "scrape" /\ call[c].options.page_options_is_dict) =>
                /\ pc'[c] = "for"
                /\ normalized[c] \in DOMAIN results'[c].pages
                /\ \/ results'[c].pages[normalized[c]].content
                   \/ results'[c].pages[normalized[c]].meta_error
                   \/ results'[c].pages[normalized[c]].error
                /\ current_urls'[c] = current_urls[c]
                /\ queue \subseteq queue']_vars
    /\ [](\A c \in Sessions :
            /\ (call[c].op = "crawl" /\ pc[c] = "raised") => fetched[c] = <<>>
            /\ (call[c].op = "crawl" /\ pc[c] = "done") =>
                  /\ current_urls[c] = {}
                  /\ ~WaveAllowed(queue, current_depth[c], call[c].options))

\* the start page failed, its links were still followed, and a page of the
\* next wave is being scraped
C7_Witness ==
    \E c \in Sessions :
        /\ Crawling(c) /\ pc[c] = "scrape" /\ current_depth[c] >= 1
        /\ \E u \in Pages(c) : results[c].pages[u].meta_error /\ ~results[c].pages[u].content

(***************************************************************************)
(* Properties of scrape and of the direct fetch.                           *)
(***************************************************************************)
\* the configured number of attempts: max_retries when it is a positive int
AttemptLimit == IF MaxRetries(page_options).kind = "int" /\ MaxRetries(page_options).v > 0
                THEN MaxRetries(page_options).v ELSE 0

\* every session.get so far ended in a connection or timeout error
AllConn(n) == \A i \in 1..n : log[i] = "conn"

\* C8 as claimed: a scrape in which the fetch, the parse, the metadata
\* extraction or the format generation failed returns a result with the
\* top-level error set and with empty content.
C8_FailureSetsError ==
    (spc = "returned" /\ failed \cap {"fetch", "parse", "metadata", "formats", "links"} # {}) =>
        (result.error /\ ~result.content)

\* C9: when the first k session.get calls of a direct fetch end in a
\* connection or timeout error and the next one succeeds (k < max_retries), the
\* fetch returns that attempt's text, makes no further attempt and has slept
\* 2^0, ..., 2^(k-1) seconds.
C9_BackoffThenSuccess ==
    (/\ ~page_options.use_browser /\ log # <<>>
     /\ log[Len(log)] \in {"ok", "ok_empty"}
     /\ AllConn(Len(log) - 1)) =>
        /\ content = Len(log)
        /\ spc \notin {"attempt", "sleep"}
        /\ Len(log) <= AttemptLimit
        /\ slept = [i \in 1..(Len(log) - 1) |-> 2 ^ (i - 1)]

\* max_retries 3, two failures, then success: 3 attempts, 1 + 2 seconds slept
C9_Witness ==
    /\ ~page_options.use_browser
    /\ MaxRetries(page_options) = PyInt(3)
    /\ log = <<"conn", "conn", "ok">>
    /\ content = 3
    /\ slept = <<1, 2>>
    /\ spc = "parse"

\* C10: a direct fetch never makes more session.get calls than max_retries; a
\* connection or timeout error with attempts left is followed by a sleep of
\* 2^attempt seconds and a new attempt; after max_retries such errors the fetch
\* has failed, without a sleep after the last one.
C10_RetriesBounded ==
    (~page_options.use_browser /\ spc # "idle") =>
        /\ Len(log) <= AttemptLimit
        /\ Len(slept) <= Len(log)
        /\ \A i \in 1..Len(slept) : slept[i] = 2 ^ (i - 1) /\ log[i] = "conn"
        /\ (log # <<>> /\ log[Len(log)] = "conn" /\ Len(log) < AttemptLimit) =>
              spc \in {"sleep", "attempt"}
        /\ (log # <<>> /\ AllConn(Len(log)) /\ Len(log) = AttemptLimit) =>
              /\ spc = "returned"
              /\ "fetch" \in failed
              /\ Len(slept) = AttemptLimit - 1

\* the default three attempts all failed: two sleeps, then the error
C10_Witness ==
    /\ ~page_options.use_browser
    /\ page_options.max_retries = Absent
    /\ log = <<"conn", "conn", "conn">>
    /\ slept = <<1, 2>>
    /\ spc = "returned"
    /\ "fetch" \in failed

\* C11: a session.get that ends in a non-retryable aiohttp.ClientError ends
\* the direct fetch at once: it is the last attempt of the call, no sleep
\* follows it (the sleeps made are those of the earlier connection errors),
\* and scrape has handled the failure, whatever max_retries is.
C11_ClientErrorFailsAtOnce ==
    \A i \in 1..Len(log) :
        (~page_options.use_browser /\ log[i] = "client") =>
            /\ i = Len(log)
            /\ AllConn(i - 1)
            /\ Len(slept) = i - 1
            /\ content = 0
            /\ spc = "returned"
            /\ "fetch" \in failed

\* a client error on the second attempt of three: one sleep before, none after
C11_Witness ==
    /\ ~page_options.use_browser
    /\ AttemptLimit = 3
    /\ log = <<"conn", "client">>
    /\ slept = <<1>>
    /\ spc = "returned"
    /\ "fetch" \in failed

(***************************************************************************)
(* Properties of scrape_batch.                                             *)
(***************************************************************************)
Given == {burls[i] : i \in 1..Len(burls)}

Distinct(urls) == \A i, j \in 1..Len(urls) : urls[i] = urls[j] => i = j

TaskAt(i, st) == i \in DOMAIN tpc /\ tpc[i] = st

InProgress == Cardinality({i \in 1..Len(tpc) : tpc[i] = "running"})

\* C12 as claimed: scrape_batch over distinct URLs returns one entry per URL;
\* the entry of a URL whose scrape failed has its error field set, the entry
\* of every other URL has content.
C12_FailedEntryHasError ==
    (bpc = "returned" /\ Distinct(burls)) =>
        /\ DOMAIN bresults = Given
        /\ \A u \in Given : bresults[u].error # bresults[u].content

\* the safety half of C13: never more scrapes in progress than the semaphore
\* was created with
AtMostCapInProgress == bpc = "gather" => (InProgress <= bcap /\ sem = bcap - InProgress)

\* C13 as claimed, for every concurrency: at most C scrapes are in progress at
\* any moment, and every task acquires the semaphore and completes.
C13_CapAndProgressAnyCap ==
    /\ []AtMostCapInProgress
    /\ \A i \in Tasks : TaskAt(i, "waiting") ~> TaskAt(i, "running")
    /\ \A i \in Tasks : TaskAt(i, "running") ~> TaskAt(i, "done")
    /\ (bpc = "gather") ~> (bpc = "returned")

\* C13, amended: for a concurrency of at least 1, at most that many scrapes
\* are in progress at any moment under every interleaving, every task acquires
\* the semaphore and completes, and the call returns.
C13_CapAndProgress ==
    /\ []AtMostCapInProgress
    /\ \A i \in Tasks :
          (TaskAt(i, "waiting") /\ bcap >= 1) ~> TaskAt(i, "running")
    /\ \A i \in Tasks : TaskAt(i, "running") ~> TaskAt(i, "done")
    /\ (bpc = "gather" /\ bcap >= 1) ~> (bpc = "returned")

\* three URLs under a concurrency of 2: two scrapes in progress, the third
\* task waits for the semaphore
C13_Witness ==
    /\ bpc = "gather"
    /\ bcap = 2
    /\ Len(burls) = 3
    /\ sem = 0
    /\ tpc = <<"running", "waiting", "running">>

\* C14: the keys of the returned dict are exactly the caller's URL strings,
\* not normalized, and each key holds the result of a scrape of that very URL,
\* taken from the same position of gather's list.
C14_KeysAreGivenUrls ==
    bpc = "returned" =>
        /\ DOMAIN bresults = Given
        /\ \A u \in Given :
              /\ bresults[u].source_url = u
              /\ \E i \in 1..Len(burls) : burls[i] = u /\ bresults[u] = batch_results[i]
        /\ \A i \in 1..Len(burls) :
              (\A j \in 1..Len(burls) : burls[j] = burls[i] => j <= i) =>
                  bresults[burls[i]] = batch_results[i]

\* two URLs that differ only by the fragment stay two keys with their own results
C14_Witness ==
    /\ bpc = "returned"
    /\ burls = <<Http(HostX, <<"/", "p", "#", "f">>), Http(HostX, <<"/", "p">>)>>
    /\ bresults[Http(HostX, <<"/", "p">>)].content
    /\ bresults[Http(HostX, <<"/", "p", "#", "f">>)].meta_error

(***************************************************************************)
(* Properties of map.                                                      *)
(***************************************************************************)
Mapped(c) == pc[c] = "done" /\ call[c].op = "map"

Urls(c) == results[c].urls

\* C15 as claimed: every URL map returns is in normalized form, no two of
\* them normalize to the same URL, and without allow_backwards all of them are
\* on the start URL's domain.
C15_MapReturnsNormalized ==
    Mapped(Caller) =>
        /\ \A i \in 1..Len(Urls(Caller)) : _normalize_url(Urls(Caller)[i]) = Urls(Caller)[i]
        /\ \A i, j \in 1..Len(Urls(Caller)) :
              _normalize_url(Urls(Caller)[i]) = _normalize_url(Urls(Caller)[j]) => i = j
        /\ ~call[Caller].options.allow_backwards =>
              \A i \in 1..Len(Urls(Caller)) :
                  _is_same_domain(Urls(Caller)[i], call[Caller].url,
                                  call[Caller].options.include_subdomains)

\* the URLs of a set that contain the search term, case-insensitively
Matching(S, search) == {x \in S : Contains(Lower(x), Lower(search))}

\* what map found, after the search filter
Filtered(c) ==
    IF call[c].options.search = <<>> THEN results[c].found
    ELSE Matching(results[c].found, call[c].options.search)

Min(a, b) == IF a < b THEN a ELSE b

\* the parts of C16 that hold for every max_pages: map hands exactly one URL,
\* the start URL, to scrape, whatever the page links to; what it returns is
\* sorted ascending without duplicates; every returned URL passed the search
\* filter, and without a max_pages (None or 0) all that passed are returned.
MapOneFetchSortedFiltered(c) ==
    /\ (call[c].op = "map" /\ pc[c] # "idle") =>
          (DOMAIN fetched[c] = {call[c].url} /\ fetched[c][call[c].url] = 1)
    /\ Mapped(c) =>
          /\ \A i \in 1..(Len(Urls(c)) - 1) : StrLess(Urls(c)[i], Urls(c)[i + 1])
          /\ {Urls(c)[i] : i \in 1..Len(Urls(c))} \subseteq Filtered(c)
          /\ ~Truthy(call[c].options.max_pages) =>
                Len(Urls(c)) = Cardinality(Filtered(c))

\* C16 as claimed: as above, and the list has at most max_pages elements
\* whenever max_pages is set.
C16_MapCapAnyMaxPages ==
    /\ MapOneFetchSortedFiltered(Caller)
    /\ (Mapped(Caller) /\ call[Caller].options.max_pages.kind = "int"
          /\ Truthy(call[Caller].options.max_pages)) =>
          Len(Urls(Caller)) <= call[Caller].options.max_pages.v

\* C16, amended: as above, and for a max_pages of at least 1 the list has
\* min(max_pages, number of URLs that passed the search filter) elements: the
\* filter comes before the cut.
C16_MapOneFetchFilterThenCap ==
    /\ MapOneFetchSortedFiltered(Caller)
    /\ (Mapped(Caller) /\ call[Caller].options.max_pages.kind = "int"
          /\ call[Caller].options.max_pages.v >= 1) =>
          Len(Urls(Caller)) =
              Min(call[Caller].options.max_pages.v, Cardinality(Filtered(Caller)))

\* the search term Q with max_pages 1: three URLs found, only http://x.com/q
\* matches, and it is returned whichever URL a cut before the filter would keep
C16_Witness ==
    /\ Mapped(Caller)
    /\ call[Caller].options.search = <<"Q">>
    /\ call[Caller].options.max_pages = PyInt(1)
    /\ Cardinality(results[Caller].found) = 3
    /\ Urls(Caller) = <<Http(HostX, <<"/", "q">>)>>

(***************************************************************************)
(* Properties of _normalize_url and _should_crawl.                         *)
(***************************************************************************)
\* C17 as claimed: normalizing a normalized URL changes nothing, whatever the
\* input.
C17_NormalizeIdempotent == fop = "normalize" => fout.twice = fout.once

\* the parts of a URL as the claim reads them: the text before the first "#",
\* split at the first "?"
NoFragment(u) == IF Find(u, "#", 1) > 0 THEN Take(u, Find(u, "#", 1) - 1) ELSE u

BeforeQuery(u) == IF Find(u, "?", 1) > 0 THEN Take(u, Find(u, "?", 1) - 1) ELSE u

QueryPart(u) ==
    IF Find(u, "?", 1) > 0 /\ Find(u, "?", 1) < Len(u) THEN Drop(u, Find(u, "?", 1)) ELSE <<>>

StripOneSlash(p) == IF p # <<>> /\ p[Len(p)] = "/" THEN Take(p, Len(p) - 1) ELSE p

HasHost(u) ==
    \E scheme \in {"http", "https", "HTTP"} :
        StartsWith(u, <<scheme, ":", "/", "/">>) /\ Len(u) > 4

\* C18 as claimed, for absolute URLs with a host: the normalized URL is the
\* URL without its fragment and without one slash at the end of its path,
\* everything else as given; the fragment has no influence.
C18_NormalizeStripsOneSlash ==
    (fop = "normalize" /\ HasHost(fin.url)) =>
        /\ fout.once = StripOneSlash(BeforeQuery(NoFragment(fin.url)))
                           \o QueryPart(NoFragment(fin.url))
        /\ fout.once = _normalize_url(NoFragment(fin.url))

\* the arguments of the _should_crawl call, and the path its rules look at
Url == fin.url

Opts == fin.options

Path == urlparse(_normalize_url(fin.url)).path

\* rule 1 as the claim words it, and as a prefix test
HttpScheme == urlparse(Url).scheme \in {<<"http">>, <<"https">>}

HttpPrefix ==
    StartsWith(Url, <<"http", ":", "/", "/">>) \/ StartsWith(Url, <<"https", ":", "/", "/">>)

\* rule 2: same host as base_url, or same last two labels with include_subdomains
SameDomain ==
    \/ Opts.allow_backwards
    \/ IF Opts.include_subdomains
       THEN LastTwoLabels(urlparse(Url).netloc) = LastTwoLabels(urlparse(fin.base_url).netloc)
       ELSE urlparse(Url).netloc = urlparse(fin.base_url).netloc

\* rule 3
NotVisited == _normalize_url(Url) \notin fin.visited

\* rule 4: max_pages counts as set when it is neither None nor 0
BelowCap == Truthy(Opts.max_pages) => Cardinality(fin.visited) < Opts.max_pages.v

\* rule 5: no /segment/ of the path is an infrastructure segment, in any case
NoInfraSegment ==
    \A i \in 1..(Len(Path) - 2) :
        ~(/\ Path[i] = "/"
          /\ LowerTok(Path[i + 1]) \in {"cdn-cgi", "wp-admin", "wp-includes", "assets", "static"}
          /\ Path[i + 2] = "/")

\* a pattern as C20 reads it
Matches(pattern, path) ==
    IF pattern # <<>> /\ pattern[Len(pattern)] = "*"
    THEN \E rest \in {Drop(path, Len(pattern))} : Take(pattern, Len(pattern) - 1) \o rest = path
    ELSE path = pattern

\* rules 6 and 7
NotExcluded == \A i \in 1..Len(Opts.exclude_paths) : ~Matches(Opts.exclude_paths[i], Path)

Included ==
    Opts.include_only_paths # <<>> =>
        \E i \in 1..Len(Opts.include_only_paths) : Matches(Opts.include_only_paths[i], Path)

\* C19 as claimed: _should_crawl returns true exactly when the URL has an http
\* or https scheme and rules 2 to 7 pass, and it rejects every URL whose
\* scheme is not http(s).
C19_SevenRulesByScheme ==
    fop = "should_crawl" =>
        /\ fout.admit <=> (/\ HttpScheme /\ SameDomain /\ NotVisited /\ BelowCap
                           /\ NoInfraSegment /\ NotExcluded /\ Included)
        /\ ~HttpScheme => ~fout.admit

\* C19, amended: _should_crawl returns true exactly when the URL starts with
\* http:// or https:// (in lower case) and rules 2 to 7 pass; it rejects every
\* URL whose scheme is not http(s), mailto:me among them, whatever the options.
C19_SevenRules ==
    fop = "should_crawl" =>
        /\ fout.admit <=> (/\ HttpPrefix /\ SameDomain /\ NotVisited /\ BelowCap
                           /\ NoInfraSegment /\ NotExcluded /\ Included)
        /\ ~HttpScheme => ~fout.admit

\* a URL on a subdomain that passes all seven rules: include_only_paths has
\* the pattern that matches it, the visited set holds another URL
C19_Witness ==
    /\ fop = "should_crawl"
    /\ Url = <<"https", ":", "/", "/", "b", ".", "x", ".", "com", "/", "blog", "/", "post-1", "/">>
    /\ Opts.include_subdomains
    /\ fin.visited # {}
    /\ fout.admit

\* rules 1 to 5 pass, so that the answer rests on the patterns
PathDecides == HttpPrefix /\ SameDomain /\ NotVisited /\ BelowCap /\ NoInfraSegment

\* C20: with one pattern in exclude_paths the URL is rejected exactly when the
\* pattern matches its path, with one pattern in include_only_paths exactly
\* when it does not; a pattern ending in * matches the paths that start with
\* what precedes the *, any other pattern matches the equal path only.  So
\* /blog/* matches /blog/post-1 and not /about, and /about matches /about only.
C20_PatternsPrefixOrExact ==
    (fop = "should_crawl" /\ PathDecides) =>
        /\ \A pt \in Patterns :
              /\ Opts.exclude_paths = <<pt>> => (fout.admit <=> ~Matches(pt, Path))
              /\ Opts.include_only_paths = <<pt>> => (fout.admit <=> Matches(pt, Path))
        /\ (Opts.exclude_paths = <<<<"/", "blog", "/", "*">>>>
              /\ Path = <<"/", "blog", "/", "post-1">>) => ~fout.admit
        /\ (Opts.exclude_paths = <<<<"/", "blog", "/", "*">>>>
              /\ Path = <<"/", "about">>) => fout.admit
        /\ Opts.exclude_paths = <<<<"/", "about">>>> =>
              (fout.admit <=> Path # <<"/", "about">>)
        /\ Opts.include_only_paths = <<<<"/", "about">>>> =>
              (fout.admit <=> Path = <<"/", "about">>)

\* /blog/post-1 is kept out by the exclude pattern /blog/*
C20_Witness ==
    /\ fop = "should_crawl"
    /\ PathDecides
    /\ Opts.exclude_paths = <<<<"/", "blog", "/", "*">>>>
    /\ Path = <<"/", "blog", "/", "post-1">>
    /\ ~fout.admit

\* the host of an absolute URL: what stands between "//" and the next "/"
HostOf(u) ==
    IF Find(u, "/", 5) > 0 THEN SubSeq(u, 5, Find(u, "/", 5) - 1) ELSE Drop(u, 5)

\* the labels of a host, and its last two
Labels(h) == SelectSeq(h, LAMBDA t : t # ".")

LastTwo(h) == IF Len(Labels(h)) <= 2 THEN Labels(h) ELSE Drop(Labels(h), Len(Labels(h)) - 1)

\* C21: _is_same_domain is reflexive and symmetric for both values of
\* include_subdomains; without it the full hosts are compared, with it the last
\* two labels of the hosts; what is the same domain without it is so with it.
C21_SameDomainRelation ==
    fop = "same_domain" =>
        /\ fin.url1 = fin.url2 => (fout.strict /\ fout.loose)
        /\ fout.strict = fout.strict_swapped
        /\ fout.loose = fout.loose_swapped
        /\ fout.strict <=> HostOf(fin.url1) = HostOf(fin.url2)
        /\ fout.loose <=> LastTwo(HostOf(fin.url1)) = LastTwo(HostOf(fin.url2))
        /\ fout.strict => fout.loose
        /\ (HostOf(fin.url1) = <<"a", ".", "x", ".", "com">>
              /\ HostOf(fin.url2) = <<"b", ".", "x", ".", "com">>) => (fout.loose /\ ~fout.strict)
        /\ (HostOf(fin.url1) = <<"a", ".", "com">> /\ HostOf(fin.url2) = <<"b", ".", "com">>) =>
              ~fout.loose

\* a.x.com and b.x.com: different hosts, same domain with include_subdomains
C21_Witness ==
    /\ fop = "same_domain"
    /\ fin.url1 = Http(<<"a", ".", "x", ".", "com">>, <<>>)
    /\ fin.url2 = Http(<<"b", ".", "x", ".", "com">>, <<"/", "p">>)
    /\ fout.loose
    /\ ~fout.strict

\* C22 as claimed: cleaning cleaned markdown changes nothing.
C22_CleanIdempotent == fop = "clean" => fout.twice = fout.once

\* C23 as claimed: when reading one tag fails, the metadata still has every
\* other field whose tag is in the document, wherever the failing tag stands
\* in the order.
C23_MetadataPerField ==
    fop = "metadata" => fout.extracted = fin.present \ {"base", fin.failing}

\* C24 as claimed: while a crawl is in progress, whatever other calls on the
\* same Crawler do in between, the URLs it has fetched are in the visited set
\* it tests, and it has fetched none of them twice.
C24_CallsOwnVisited ==
    \A c \in Sessions :
        (call[c].op = "crawl" /\ pc[c] \in {"while", "for", "scrape"}) =>
            /\ DOMAIN fetched[c] \subseteq visited
            /\ \A u \in DOMAIN fetched[c] : fetched[c][u] <= 1

(***************************************************************************)
(* The job layer                                                           *)
(***************************************************************************)
\* the background task of job j has run to its end
Done(j) == j \in DOMAIN background /\ background[j].state = "done"

\* how the operation of job j ended: what crawl or scrape returned, or that
\* it raised
Operation(j) == background[j].outcome

\* the pages that job j's operation annotated with an error, with the error:
\* the pages of a crawl, the one page of a scrape
Annotated(j) ==
    IF background[j].fn = "background_crawl"
    THEN {<<u, Operation(j).value.pages[u].metadata.error>> :
            u \in {v \in DOMAIN Operation(j).value.pages :
                     "error" \in DOMAIN Operation(j).value.pages[v].metadata}}
    ELSE IF "error" \in DOMAIN Operation(j).value.metadata
         THEN {<<StartUrl, Operation(j).value.metadata.error>>}
         ELSE {}

\* the same, read from the row stored for job j
StoredAnnotated(j) ==
    IF background[j].fn = "background_crawl"
    THEN {<<u, scraped_content[j].content.pages[u].metadata.error>> :
            u \in {v \in DOMAIN scraped_content[j].content.pages :
                     "error" \in DOMAIN scraped_content[j].content.pages[v].metadata}}
    ELSE IF "error" \in DOMAIN scraped_content[j].metadata_content
         THEN {<<StartUrl, scraped_content[j].metadata_content.error>>}
         ELSE {}

(* C25: a background crawl or scrape job is marked failed only when the    *)
(* whole operation raised; when the operation returned, per-page failures  *)
(* inside it included, the job ends completed and its stored result        *)
(* carries the error-annotated pages.                                      *)
C25_FailedOnlyWhenRaised ==
    \A j \in JobIds :
        Done(j) =>
            /\ j \in DOMAIN jobs
            /\ jobs[j].status = "failed" => Operation(j).raised
            /\ ~Operation(j).raised =>
                  /\ jobs[j].status = "completed"
                  /\ j \in DOMAIN scraped_content
                  /\ StoredAnnotated(j) = Annotated(j)

\* the jobs whose id a start_scrape response has handed out (the task is
\* added just before the route returns)
ScrapeJobs == {j \in DOMAIN background : background[j].fn = "background_scrape"}

(* C26: starting an asynchronous scrape commits a job row with status      *)
(* pending and operation scrape before the background task is added and    *)
(* before the route returns; the response reports status pending with the  *)
(* id of that row; a status query with an id handed out this way is never  *)
(* answered not-found and reports operation scrape.                        *)
C26_PendingBeforeScheduled ==
    /\ handler.route = "start_scrape" =>
          /\ handler.job_id \in DOMAIN jobs
          /\ jobs[handler.job_id].operation = "scrape"
          /\ jobs[handler.job_id].status = "pending"
          /\ handler.at = "created" => handler.job_id \notin DOMAIN background
    /\ \A j \in DOMAIN background : j \in DOMAIN jobs
    /\ (response.kind = "started" /\ response.request.route = "start_scrape") =>
          /\ response.body.status = "pending"
          /\ response.body.job_id \in DOMAIN jobs
          /\ jobs[response.body.job_id].operation = "scrape"
          /\ jobs[response.body.job_id].status = "pending"
    /\ (response.kind = "status" /\ response.request.job_id \in ScrapeJobs) =>
          /\ response.code = 200
          /\ response.body.id = response.request.job_id
          /\ response.body.operation = "scrape"

\* a status query finds a scrape job that is still pending, after a crawl job
\* was started too
C26_Witness ==
    /\ response.kind = "status"
    /\ response.request.job_id \in ScrapeJobs
    /\ response.code = 200
    /\ response.body.status = "pending"
    /\ \E j \in DOMAIN jobs : jobs[j].operation = "crawl"

\* what job j's operation produced, as the result of a status response: the
\* page metadata and content of a scrape, the crawl's figures and pages
Produced(j) ==
    IF background[j].fn = "background_crawl"
    THEN [metadata_content |->
             [total_pages |-> Operation(j).value.metadata.total_pages,
              depth_reached |-> Operation(j).value.metadata.depth_reached],
          content |-> [pages |-> Operation(j).value.pages]]
    ELSE [metadata_content |-> Operation(j).value.metadata,
          content |-> Operation(j).value.content]

(* C27: a job status query returns the job's status, together with the     *)
(* stored result -- the page metadata and content the operation produced   *)
(* -- when the job is completed and with the error details when it failed; *)
(* it answers not-found when no job has the id.                            *)
C27_StatusReturnsResult ==
    response.kind = "status" =>
        IF response.request.job_id \notin DOMAIN jobs
        THEN response.code = 404
        ELSE /\ response.code = 200
             /\ response.body.status = jobs[response.request.job_id].status
             /\ response.body.status = "completed" =>
                   /\ "result" \in DOMAIN response.body
                   /\ response.body.result = Produced(response.request.job_id)
             /\ response.body.status = "failed" =>
                   /\ Operation(response.request.job_id).raised
                   /\ response.body.error =
                         <<IF background[response.request.job_id].fn = "background_crawl"
                           THEN "Crawling failed: " ELSE "Scraping failed: ">>
                         \o Operation(response.request.job_id).message

\* the request of a history response, the jobs it lists, and the jobs its
\* filters keep: a status filter keeps the jobs of that status, a days filter
\* (a number of days other than 0) the jobs created that many days ago or later
Wanted ==
    {j \in DOMAIN jobs :
        /\ response.request.status # "" => jobs[j].status = response.request.status
        /\ (response.request.days.kind = "int" /\ response.request.days.v # 0) =>
              now - jobs[j].created_at <= response.request.days.v}

Listed == response.body.jobs

\* the smaller and the larger of two numbers
Least(a, b) == IF a < b THEN a ELSE b

Most(a, b) == IF a > b THEN a ELSE b

(* C28: the history query returns at most limit jobs, starting at offset   *)
(* in the order newest first by creation time, each with its operation,    *)
(* status and url, and total is the number of jobs that match the status   *)
(* and days filters, whatever limit and offset are.                        *)
C28_HistoryPage ==
    response.kind = "history" =>
        /\ response.body.total = Cardinality(Wanted)
        /\ Len(Listed) = Least(response.request.limit,
                               Most(0, Cardinality(Wanted) - response.request.offset))
        /\ \A i, k \in DOMAIN Listed :
              i < k => Listed[i].id # Listed[k].id /\ Listed[i].created_at >= Listed[k].created_at
        /\ \A i \in DOMAIN Listed :
              /\ Listed[i].id \in Wanted
              /\ Listed[i].operation = jobs[Listed[i].id].operation
              /\ Listed[i].status = jobs[Listed[i].id].status
              /\ Listed[i].url = jobs[Listed[i].id].url
              /\ Listed[i].created_at = jobs[Listed[i].id].created_at
              /\ Cardinality({j \in Wanted : jobs[j].created_at > Listed[i].created_at})
                    <= response.request.offset + i - 1
              /\ Cardinality({j \in Wanted : jobs[j].created_at >= Listed[i].created_at})
                    >= response.request.offset + i

\* of two jobs created on different days the query with offset 1 lists one,
\* the older
C28_Witness ==
    /\ response.kind = "history"
    /\ response.request.offset = 1
    /\ response.body.total = 2
    /\ Len(Listed) = 1
    /\ \E j \in DOMAIN jobs : jobs[j].created_at > Listed[1].created_at

\* a crawl call has returned its results
CrawlReturned(c) == call[c].op = "crawl" /\ pc[c] = "done"

\* the URLs call c admitted and handed to scrape
Fetched(c) == DOMAIN fetched[c]

(* C29: when crawl returns, depth_reached is the number of waves executed  *)
(* minus one, and total_pages is the number of URLs that passed admission  *)
(* and were fetched (the skipped ones are not counted), which is the size  *)
(* of the visited set and the number of entries of pages.                  *)
C29_DepthAndTotals ==
    \A c \in Sessions :
        CrawlReturned(c) =>
            /\ results[c].depth_reached = waves[c] - 1
            /\ results[c].total_pages = Cardinality(Fetched(c))
            /\ results[c].total_pages = Cardinality(visited)
            /\ results[c].total_pages = Cardinality(DOMAIN results[c].pages)

\* the crawl call of c is in its loop
Looping(c) == call[c].op = "crawl" /\ pc[c] \in {"while", "for", "scrape"}

\* the crawl call of c is in its loop or has left it
Entered(c) == Looping(c) \/ CrawlReturned(c)

\* max_depth of the call of c is unbounded (None)
Unbounded(c) == call[c].options.max_depth.kind = "none"

\* the wave counter of c has reached max_depth
DepthReached(c) == ~Unbounded(c) /\ 2 * current_depth[c] >= Halves(call[c].options.max_depth)

\* a wave starts only from a non-empty frontier with the counter below
\* max_depth, and the loop is left only with the frontier empty or the counter
\* at max_depth
StopsWhenDone(c) ==
    /\ (pc[c] = "while" /\ pc'[c] = "for") =>
          /\ queue # {}
          /\ ~DepthReached(c)
          /\ current_urls'[c] = queue
    /\ (Looping(c) /\ pc'[c] = "done") =>
          /\ pc[c] = "while"
          /\ queue = {} \/ DepthReached(c)

\* with unbounded max_depth every wave so far that left the frontier non-empty
\* fetched a URL that was not visited before: the call has fetched at least
\* as many different URLs as it has run such waves
WavesProgress(c) ==
    (Entered(c) /\ Unbounded(c)) =>
        /\ queue # {} => Cardinality(Fetched(c)) >= waves[c]
        /\ Cardinality(Fetched(c)) >= waves[c] - 1
        /\ \A u \in Fetched(c) : fetched[c][u] = 1

(* C30: crawl terminates on a finite link graph when every fetch           *)
(* terminates: it stops as soon as the frontier is empty or the wave       *)
(* counter reaches max_depth, it never runs more than max_depth waves, and *)
(* with unbounded max_depth every wave fetches at least one not-yet-       *)
(* visited URL or leaves the frontier empty.                               *)
C30_TerminatesWithinMaxDepth ==
    /\ [][\A c \in Sessions : StopsWhenDone(c)]_vars
    /\ [](\A c \in Sessions :
            (Entered(c) /\ ~Unbounded(c)) =>
                2 * waves[c] <= Halves(call[c].options.max_depth))
    /\ [](\A c \in Sessions : WavesProgress(c))
    /\ \A c \in Sessions : Looping(c) ~> CrawlReturned(c)

\* C30, amended: as C30, with the number of waves bounded by max_depth rounded
\* up: by max_depth itself when it is an integer, by one wave more than its
\* integer part when it is a fractional number such as 0.5, which the
\* validation accepts.
C30_TerminatesWithinCeiling ==
    /\ [][\A c \in Sessions : StopsWhenDone(c)]_vars
    /\ [](\A c \in Sessions :
            (Entered(c) /\ ~Unbounded(c)) =>
                /\ 2 * waves[c] <= Halves(call[c].options.max_depth) + 1
                /\ IsInt(call[c].options.max_depth) =>
                      waves[c] <= call[c].options.max_depth.v)
    /\ [](\A c \in Sessions : WavesProgress(c))
    /\ \A c \in Sessions : Looping(c) ~> CrawlReturned(c)

\* an unbounded crawl has returned after three waves and three fetches, with
\* the frontier empty
C30_Witness ==
    /\ CrawlReturned(Caller)
    /\ Unbounded(Caller)
    /\ waves[Caller] = 3
    /\ Cardinality(Fetched(Caller)) = 3
    /\ queue = {}

(***************************************************************************)
(* C31: the steps of a browser-mode fetch and the life of its driver       *)
(***************************************************************************)
\* the calls the actions up to the i-th make, in list order
RECURSIVE ActionCalls(_, _)
ActionCalls(actions, i) ==
    IF i = 0 THEN <<>>
    ELSE LET before == ActionCalls(actions, i - 1)
             op == PageCall(actions[i])
         IN  IF op = "none" THEN before ELSE Append(before, [step |-> "action", op |-> op])

\* the steps of a whole fetch with these options, in the order claimed
Steps(po) ==
    <<[step |-> "navigate", op |-> "goto"]>>
    \o (IF Truthy(po.wait_for) THEN <<[step |-> "wait_for", op |-> "wait_for_timeout"]>> ELSE <<>>)
    \o ActionCalls(po.actions, Len(po.actions))
    \o (IF Truthy(po.post_action_wait)
        THEN <<[step |-> "post_action_wait", op |-> "wait_for_timeout"]>> ELSE <<>>)
    \o <<[step |-> "read", op |-> "content"], [step |-> "teardown", op |-> "close"]>>

\* the trace without the state of the driver
Calls == [i \in DOMAIN trace |-> [step |-> trace[i].step, op |-> trace[i].op]]

\* the calls made so far are the first of the steps claimed, and all of
\* them once the fetch has returned
StepsInOrder ==
    /\ Len(Calls) <= Len(Steps(wopts))
    /\ Calls = SubSeq(Steps(wopts), 1, Len(Calls))
    /\ wpc = "returned" => Calls = Steps(wopts)

\* C31: a browser-mode fetch navigates, waits wait_for if asked, runs the
\* actions in list order skipping the types it does not know, waits
\* post_action_wait if asked, then reads the DOM; and every page operation
\* it makes is made while the driver opened for the call is alive, the
\* browser being closed only after the last of them.
C31_PageCallsWhileDriverAlive ==
    /\ StepsInOrder
    /\ \A i \in DOMAIN trace : trace[i].step # "teardown" => trace[i].alive

(***************************************************************************)
(* C32: the traversal is breadth-first by waves                            *)
(***************************************************************************)
\* the crawl call of c is running a wave: its number is current_depth[c]
InWave(c) == call[c].op = "crawl" /\ pc[c] \in {"for", "scrape"}

\* the crawl call of c has handed a URL to scrape
Fetching(c) == call[c].op = "crawl" /\ pc[c] = "scrape"

\* the URL being fetched was come to by a chain of as many admitted links
\* as the number of the wave
ChainOfWave(c) == current_depth[c] \in Lengths(chains[c], current_url[c])

\* the URL being fetched is less than max_depth links from the start URL
WithinDistance(c) ==
    Unbounded(c) \/ \E n \in Lengths(chains[c], current_url[c]) :
                        2 * n < Halves(call[c].options.max_depth)

\* C32: every URL fetched in wave k (counted from 0) is reached from the
\* start URL by a chain of k admitted links; with max_depth = D only the
\* waves 0 to D - 1 run; and so no page that is D links or more from the
\* start URL is fetched.
C32_WavesUpToDepthMinusOne ==
    \A c \in {Caller} :
        /\ Fetching(c) => ChainOfWave(c) /\ WithinDistance(c)
        /\ InWave(c) /\ ~Unbounded(c) =>
              2 * current_depth[c] <= Halves(call[c].options.max_depth) - 2

\* C32, amended: every URL fetched in wave k (counted from 0) is reached
\* from the start URL by a chain of k admitted links; with max_depth = D only
\* the waves whose number is below D run, which are the waves 0 to D - 1 when
\* D is an integer and wave 0 as well when D is a fraction below 1; and so no
\* page that is D links or more from the start URL is fetched.
C32_WavesBelowDepth ==
    \A c \in {Caller} :
        /\ Fetching(c) => ChainOfWave(c) /\ WithinDistance(c)
        /\ InWave(c) /\ ~Unbounded(c) =>
              /\ 2 * current_depth[c] < Halves(call[c].options.max_depth)
              /\ IsInt(call[c].options.max_depth) =>
                    current_depth[c] <= call[c].options.max_depth.v - 1

\* a crawl with max_depth 2 is fetching, in wave 1, a page its start page
\* links to
C32_Witness ==
    /\ Fetching(Caller)
    /\ call[Caller].options.max_depth = PyInt(2)
    /\ current_depth[Caller] = 1
    /\ current_url[Caller] # call[Caller].url
    /\ <<current_url[Caller], 1>> \in chains[Caller]

(***************************************************************************)
(* C33: every job ends in one terminal status, which stays                 *)
(***************************************************************************)
\* job j has a row
Created(j) == j \in DOMAIN jobs

\* the row of job j has a terminal status
Terminal(j) == Created(j) /\ jobs[j].status \in {"completed", "failed"}

\* a row is pending, completed or failed, and has completed_at set exactly
\* when it is completed or failed
CompletedAtWhenTerminal ==
    \A j \in DOMAIN jobs :
        /\ jobs[j].status \in {"pending", "completed", "failed"}
        /\ jobs[j].completed_at # PyNone <=> Terminal(j)

\* no step changes the status of a row that is completed or failed
TerminalKept ==
    \A j \in JobIds : Terminal(j) => j \in DOMAIN jobs' /\ jobs'[j].status = jobs[j].status

\* update_job for an id that has no row leaves both tables as they are
UnknownLeft ==
    (\E job_id \in 0..MaxJobs, status \in Statuses : UpdateUnknown(job_id, status))
        => UNCHANGED <<jobs, scraped_content>>

\* C33: every job a start request creates leaves pending in the end, for
\* completed or failed; completed_at is set exactly when the status is one of
\* the two; once a row is completed or failed its status is never changed;
\* and update_job with the id of no job changes nothing.
C33_JobsEndOnce ==
    /\ \A j \in JobIds : Created(j) ~> Terminal(j)
    /\ []CompletedAtWhenTerminal
    /\ [][TerminalKept]_vars
    /\ [][UnknownLeft]_vars

\* a scrape job has completed and a crawl job has failed, each after being
\* pending, and both have their completed_at
C33_Witness ==
    /\ \E j \in DOMAIN jobs :
          /\ jobs[j].operation = "scrape"
          /\ jobs[j].status = "completed"
          /\ jobs[j].completed_at # PyNone
          /\ Done(j)
    /\ \E j \in DOMAIN jobs :
          /\ jobs[j].operation = "crawl"
          /\ jobs[j].status = "failed"
          /\ jobs[j].completed_at # PyNone
          /\ Done(j)

====
